---- MODULE Spec2Model ----
(***************************************************************************)
(* A model of the paged, single-leaf SQLite clone of src/main.c++ (the     *)
(* program of lines 1-670): the pager and its page cache, the leaf node    *)
(* layout inside page 0, the statement parser, the executor and the REPL   *)
(* loop of main, together with the database file the pager reads and       *)
(* writes.                                                                 *)
(*                                                                         *)
(* Memory and the file are modelled byte for byte.  A byte string is kept  *)
(* run-length encoded: a sequence of runs [b |-> byte, n |-> count] in     *)
(* canonical form (no empty run, no two adjacent runs of the same byte),   *)
(* so that two byte strings are equal iff their encodings are equal.  A    *)
(* page buffer is kept as the sequence of its consecutive pieces (the      *)
(* header, each cell, the rest), each piece a byte string; it is read and  *)
(* written by byte offset and length, whatever pieces these touch.         *)
(***************************************************************************)
EXTENDS Integers, Sequences, FiniteSets

\* ------------------------------------------------------------------------
\* Bounds of the model (not program constants)
\* ------------------------------------------------------------------------
\* number of times the program is run on the same database file
MaxRuns == 2
\* number of INSERT lines the input holds, over all runs
MaxInsertLines == 15

\* INSERT lines fed to the program when system calls may fail
MaxInsertLinesIO == 2
\* cells past the last whole cell of a page buffer that lie in accessible
\* memory, when the memory after the buffer is accessible at all
MaxBeyond == 1

\* ------------------------------------------------------------------------
\* Byte strings (run-length encoded)
\* ------------------------------------------------------------------------
\* The recursive operators split their argument in halves, which keeps
\* the depth of the recursion logarithmic in the number of runs.
RECURSIVE BLen(_)
BLen(s) ==
  IF s = <<>> THEN 0
  ELSE IF Len(s) = 1 THEN s[1].n
  ELSE BLen(SubSeq(s, 1, Len(s) \div 2)) + BLen(SubSeq(s, Len(s) \div 2 + 1, Len(s)))

\* n times the byte b
BRep(b, n) == IF n <= 0 THEN <<>> ELSE <<[b |-> b, n |-> n]>>

\* concatenation
BCat(s, t) ==
  IF s = <<>> THEN t
  ELSE IF t = <<>> THEN s
  ELSE IF s[Len(s)].b = t[1].b
       THEN SubSeq(s, 1, Len(s) - 1)
              \o <<[b |-> t[1].b, n |-> s[Len(s)].n + t[1].n]>>
              \o Tail(t)
       ELSE s \o t

\* the first k bytes of s (all of s if it is shorter)
RECURSIVE BTake(_, _)
BTake(s, k) ==
  IF k <= 0 \/ s = <<>> THEN <<>>
  ELSE IF Len(s) = 1 THEN <<[b |-> s[1].b, n |-> IF s[1].n < k THEN s[1].n ELSE k]>>
  ELSE LET l == SubSeq(s, 1, Len(s) \div 2)
           r == SubSeq(s, Len(s) \div 2 + 1, Len(s))
       IN  IF k <= BLen(l) THEN BTake(l, k) ELSE l \o BTake(r, k - BLen(l))

\* s without its first k bytes (empty if it is shorter)
RECURSIVE BDrop(_, _)
BDrop(s, k) ==
  IF s = <<>> THEN <<>>
  ELSE IF k <= 0 THEN s
  ELSE IF Len(s) = 1 THEN BRep(s[1].b, s[1].n - k)
  ELSE LET l == SubSeq(s, 1, Len(s) \div 2)
           r == SubSeq(s, Len(s) \div 2 + 1, Len(s))
       IN  IF k >= BLen(l) THEN BDrop(r, k - BLen(l)) ELSE BDrop(l, k) \o r

\* the len bytes of s from 0-based offset off on
BSlice(s, off, len) == BTake(BDrop(s, off), len)

\* the byte at 0-based index i (i < BLen(s))
BByte(s, i) == BDrop(s, i)[1].b

\* a byte string given as a plain sequence of byte values
RECURSIVE BOf(_)
BOf(q) ==
  IF q = <<>> THEN <<>>
  ELSE IF Len(q) = 1 THEN BRep(q[1], 1)
  ELSE BCat(BOf(SubSeq(q, 1, Len(q) \div 2)), BOf(SubSeq(q, Len(q) \div 2 + 1, Len(q))))

\* the bytes of s before the first byte b (all of s if there is none)
BFind(s, b) ==
  IF \E i \in 1 .. Len(s) : s[i].b = b
  THEN SubSeq(s, 1, (CHOOSE i \in 1 .. Len(s) :
                       s[i].b = b /\ \A j \in 1 .. i - 1 : s[j].b # b) - 1)
  ELSE s

\* ------------------------------------------------------------------------
\* Program constants                                   (src/main.c++ 43-130)
\* ------------------------------------------------------------------------
COLUMN_USERNAME_SIZE == 32
COLUMN_EMAIL_SIZE == 255
ID_SIZE == 4
USERNAME_SIZE == COLUMN_USERNAME_SIZE + 1
EMAIL_SIZE == COLUMN_EMAIL_SIZE + 1
ID_OFFSET == 0
USERNAME_OFFSET == ID_OFFSET + ID_SIZE
EMAIL_OFFSET == USERNAME_OFFSET + USERNAME_SIZE
ROW_SIZE == ID_SIZE + USERNAME_SIZE + EMAIL_SIZE
PAGE_SIZE == 4096
TABLE_MAX_PAGES == 100
NODE_INTERNAL == 0
NODE_LEAF == 1
NODE_TYPE_SIZE == 1
NODE_TYPE_OFFSET == 0
IS_ROOT_SIZE == 1
IS_ROOT_OFFSET == NODE_TYPE_SIZE
PARENT_POINTER_SIZE == 4
PARENT_POINTER_OFFSET == IS_ROOT_OFFSET + IS_ROOT_SIZE
COMMON_NODE_HEADER_SIZE == NODE_TYPE_SIZE + IS_ROOT_SIZE + PARENT_POINTER_SIZE
LEAF_NODE_NUM_CELLS_SIZE == 4
LEAF_NODE_NUM_CELLS_OFFSET == COMMON_NODE_HEADER_SIZE
LEAF_NODE_HEADER_SIZE == COMMON_NODE_HEADER_SIZE + LEAF_NODE_NUM_CELLS_SIZE
LEAF_NODE_KEY_SIZE == 4
LEAF_NODE_KEY_OFFSET == 0
LEAF_NODE_VALUE_SIZE == ROW_SIZE
LEAF_NODE_VALUE_OFFSET == LEAF_NODE_KEY_OFFSET + LEAF_NODE_KEY_SIZE
LEAF_NODE_CELL_SIZE == LEAF_NODE_KEY_SIZE + LEAF_NODE_VALUE_SIZE
LEAF_NODE_SPACE_FOR_CELLS == PAGE_SIZE - LEAF_NODE_HEADER_SIZE
LEAF_NODE_MAX_CELLS == LEAF_NODE_SPACE_FOR_CELLS \div LEAF_NODE_CELL_SIZE
EXIT_SUCCESS == 0
EXIT_FAILURE == 1

\* the null pointer of a page slot (a page buffer is never empty)
NULL == <<>>

\* pages[TABLE_MAX_PAGES] is the memory that follows the array in the block
\* that malloc(sizeof(Pager)) returned.  What an access to it finds is not
\* defined: a null pointer, a pointer that is no page buffer (WILD), or no
\* accessible memory at all (GUARD).
WILD == <<<<>>>>
GUARD == <<<<>>, <<>>>>

\* ------------------------------------------------------------------------
\* Integers in memory
\* ------------------------------------------------------------------------
\* the four bytes of a uint32_t in host (little-endian) order
U32Bytes(v) ==
  BCat(BCat(BRep(v % 256, 1), BRep((v \div 256) % 256, 1)),
       BCat(BRep((v \div 65536) % 256, 1), BRep((v \div 16777216) % 256, 1)))

\* the uint32_t held by four bytes
U32Of(w) ==
  BByte(w, 0) + 256 * BByte(w, 1) + 65536 * BByte(w, 2) + 16777216 * BByte(w, 3)

\* Integers of the checker are 32 bits wide, so a uint32_t that may exceed
\* 2^31 - 1 (pager->fileSize after a failed lseek) is kept as its four bytes
\* <<b0, b1, b2, b3>>, least significant first.
\* conversion of an off_t to uint32_t; lseek returns an offset or -1
ToU32(x) ==
  IF x < 0 THEN <<255, 255, 255, 255>>
  ELSE <<x % 256, (x \div 256) % 256, (x \div 65536) % 256, (x \div 16777216) % 256>>

\* w / PAGE_SIZE for a uint32_t w (PAGE_SIZE = 2^12)
ShiftRight12(w) == (w[2] \div 16) + 16 * w[3] + 4096 * w[4]

\* integer division of C (truncation toward zero), for a positive divisor
CDiv(a, b) == IF a >= 0 THEN a \div b ELSE -((-a) \div b)

\* remainder of C (sign of the dividend), for a positive divisor
CMod(a, b) == a - b * CDiv(a, b)

\* src written over the bytes of dst from offset off on
Overwrite(dst, off, src) ==
  BCat(BCat(BTake(dst, off), src), BDrop(dst, off + BLen(src)))

\* F applied to the value of e: the statements F that follow the statement
\* that computes e
Bind(e, F(_)) == F(e)

\* ------------------------------------------------------------------------
\* Page buffers
\* ------------------------------------------------------------------------
\* A buffer of PAGE_SIZE bytes is the sequence of its pieces: piece 1 holds
\* bytes [0, 10), piece c + 2 the 297 bytes from 10 + 297 c on (c < 13),
\* the last piece the bytes up to PAGE_SIZE.
NumPieces == LEAF_NODE_MAX_CELLS + 2

PieceStart(c) ==
  IF c = 1 THEN 0
  ELSE IF c > NumPieces THEN PAGE_SIZE
  ELSE LEAF_NODE_HEADER_SIZE + (c - 2) * LEAF_NODE_CELL_SIZE

PieceOf(off) ==
  IF off < LEAF_NODE_HEADER_SIZE THEN 1
  ELSE IF off >= PieceStart(NumPieces) THEN NumPieces
  ELSE (off - LEAF_NODE_HEADER_SIZE) \div LEAF_NODE_CELL_SIZE + 2

\* the buffer that holds the given PAGE_SIZE bytes
PageOf(bytes) ==
  [c \in 1 .. NumPieces |-> BSlice(bytes, PieceStart(c), PieceStart(c + 1) - PieceStart(c))]

\* the PAGE_SIZE bytes of a buffer
RECURSIVE PageBytesFrom(_, _)
PageBytesFrom(page, c) ==
  IF c > NumPieces THEN <<>> ELSE BCat(page[c], PageBytesFrom(page, c + 1))

PageBytes(page) == PageBytesFrom(page, 1)

\* the len bytes at offset off of a buffer
PageRead(page, off, len) ==
  IF off + len <= PieceStart(PieceOf(off) + 1)
  THEN BSlice(page[PieceOf(off)], off - PieceStart(PieceOf(off)), len)
  ELSE BSlice(PageBytes(page), off, len)

\* memcpy((char *)dst + off, src, BLen(src)) into a buffer
memcpy(dst, off, src) ==
  IF off + BLen(src) <= PieceStart(PieceOf(off) + 1)
  THEN [dst EXCEPT ![PieceOf(off)] = Overwrite(@, off - PieceStart(PieceOf(off)), src)]
  ELSE PageOf(Overwrite(PageBytes(dst), off, src))

\* ------------------------------------------------------------------------
\* The process and its environment
\* ------------------------------------------------------------------------
\* The C functions below are operators on a record m, the state of the
\* running process and of the file it has open:
\*   m.file        bytes of the database file
\*   m.pos         file offset of the descriptor pager->fd
\*   m.pager       the Pager: fileSize, numPages, pages[TABLE_MAX_PAGES]
\*   m.out         lines written to std::cout / std::cerr by the current
\*                 iteration of main, in order
\*   m.pc          "repl" while main runs, "exited" once the process is gone
\*   m.exitStatus  the exit status, once exited
\*   m.closeCalls  number of calls of dbClose made by the process
\*   m.failed      the system calls that have returned -1 in this process
\* A function called after the process has exited does nothing.
\*
\* env is what the environment decides during one step: env.ok[c] tells
\* whether the system call made at call site c succeeds, env.heap is the
\* byte that fills memory returned by malloc (malloc does not clear it),
\* env.past is what follows a heap block (the Pager when it is allocated, a
\* page buffer when it is read) in memory.

Sites == {"open", "lseek_end", "lseek_get", "read", "lseek_flush", "write", "close"}

\* a line on std::cout (fd 1) or std::cerr (fd 2)
Cout(text) == [fd |-> 1, text |-> text]
Cerr(text) == [fd |-> 2, text |-> text]

Emit(m, line) == IF m.pc = "exited" THEN m ELSE [m EXCEPT !.out = Append(@, line)]

\* write(fd, buf, BLen(buf)) at the current offset; a hole left by a seek
\* past the end reads as zeros
WriteAt(file, off, buf) ==
  LET padded == IF off > BLen(file) THEN BCat(file, BRep(0, off - BLen(file))) ELSE file
  IN  BCat(BCat(BTake(padded, off), buf), BDrop(padded, off + BLen(buf)))

\* faulty variant of exit: the cached page is written to the file on the way
\* out, as a handler registered with atexit would do
exitFlushing(m, status) ==
  IF m.pc = "exited" THEN m
  ELSE [m EXCEPT !.pc = "exited", !.exitStatus = status,
                 !.file = IF m.pager.pages[0] = NULL THEN @
                          ELSE WriteAt(@, 0, PageBytes(m.pager.pages[0]))]

\* exit(status): the process ends; nothing is registered with atexit, so no
\* file is written and no page is flushed on the way out
exit(m, status) ==
  IF m.pc = "exited" THEN m ELSE [m EXCEPT !.pc = "exited", !.exitStatus = status]

\* the process is killed by the signal of an invalid memory access
KILLED == 128 + 11

\* a system call at site c returned -1
Failed(m, c) == [m EXCEPT !.failed = @ \cup {c}]

\* ------------------------------------------------------------------------
\* Node accessors                                     (src/main.c++ 193-214)
\* ------------------------------------------------------------------------
leafNodeNumCells(node) ==
  U32Of(PageRead(node, LEAF_NODE_NUM_CELLS_OFFSET, LEAF_NODE_NUM_CELLS_SIZE))

\* byte offset of cell cellNum inside the page
leafNodeCell(cellNum) == LEAF_NODE_HEADER_SIZE + cellNum * LEAF_NODE_CELL_SIZE

\* the four bytes of the key of cell cellNum
leafNodeKey(node, cellNum) == PageRead(node, leafNodeCell(cellNum), LEAF_NODE_KEY_SIZE)

\* byte offset of the value of cell cellNum inside the page
leafNodeValue(cellNum) == leafNodeCell(cellNum) + LEAF_NODE_KEY_SIZE

\* faulty variant of initializeLeafNode: num_cells is left as malloc gave it
initializeLeafNodeTypeOnly(node) == memcpy(node, NODE_TYPE_OFFSET, BRep(NODE_LEAF, 1))

initializeLeafNode(node) ==
  memcpy(memcpy(node, LEAF_NODE_NUM_CELLS_OFFSET, U32Bytes(0)),
         NODE_TYPE_OFFSET, BRep(NODE_LEAF, 1))

\* ------------------------------------------------------------------------
\* Pager                                              (src/main.c++ 254-321)
\* ------------------------------------------------------------------------
\* faulty variant of pagerOpen: the length of the file is not tested
pagerOpenAnyLength(m, env) ==
  IF ~env.ok["open"]
  THEN exit(Emit(Failed(m, "open"), Cerr("Unable to open file")), EXIT_FAILURE)
  ELSE
    Bind(IF env.ok["lseek_end"] THEN BLen(m.file) ELSE -1, LAMBDA fileLength :
      Bind([(IF fileLength >= 0 THEN m ELSE Failed(m, "lseek_end")) EXCEPT
              !.pos = IF fileLength >= 0 THEN fileLength ELSE 0,
              !.pager = [fileSize |-> ToU32(fileLength),
                         numPages |-> CDiv(fileLength, PAGE_SIZE),
                         pages    |-> [i \in 0 .. TABLE_MAX_PAGES - 1 |-> NULL],
                         past     |-> env.past]],
           LAMBDA m1 :
             m1))

pagerOpen(m, env) ==
  IF ~env.ok["open"]
  THEN exit(Emit(Failed(m, "open"), Cerr("Unable to open file")), EXIT_FAILURE)
  ELSE
    Bind(IF env.ok["lseek_end"] THEN BLen(m.file) ELSE -1, LAMBDA fileLength :
      Bind([(IF fileLength >= 0 THEN m ELSE Failed(m, "lseek_end")) EXCEPT
              !.pos = IF fileLength >= 0 THEN fileLength ELSE 0,
              !.pager = [fileSize |-> ToU32(fileLength),
                         numPages |-> CDiv(fileLength, PAGE_SIZE),
                         pages    |-> [i \in 0 .. TABLE_MAX_PAGES - 1 |-> NULL],
                         past     |-> env.past]],
           LAMBDA m1 :
             IF CMod(fileLength, PAGE_SIZE) # 0 /\ fileLength > 0
             THEN exit(Emit(m1, Cerr("DB file doesn't have whole number of Pages. Corrupted file.")),
                       EXIT_FAILURE)
             ELSE m1))

\* pageNum * PAGE_SIZE; pageNum <= TABLE_MAX_PAGES where it is used, so the
\* uint32_t product does not wrap
PageOffset(pageNum) == pageNum * PAGE_SIZE

\* pager->pages[i]; what lies past the array is the same at every index
Slot(pgr, i) == IF i < TABLE_MAX_PAGES THEN pgr.pages[i] ELSE pgr.past

\* faulty variant of getPage: a miss sets num_pages to page_num + 1 whatever
\* it was
getPageSetsNumPages(m, pageNum, env) ==
  IF m.pc = "exited" THEN m
  ELSE IF pageNum > TABLE_MAX_PAGES
  THEN exit(Emit(m, Cout("Tried to fetch page out of bounds.")), EXIT_FAILURE)
  ELSE IF Slot(m.pager, pageNum) = GUARD THEN exit(m, KILLED)
  ELSE IF Slot(m.pager, pageNum) # NULL THEN m
  ELSE
    LET page      == PageOf(BRep(env.heap, PAGE_SIZE))
        noOfPages == ShiftRight12(m.pager.fileSize)
        seekOk    == env.ok["lseek_get"]
        pos1      == IF seekOk THEN PageOffset(pageNum) ELSE m.pos
        data      == BSlice(m.file, pos1, PAGE_SIZE)
        install(mm, pg) ==
          IF pageNum < TABLE_MAX_PAGES
          THEN [mm EXCEPT !.pager.pages[pageNum] = pg, !.pager.numPages = pageNum + 1]
          ELSE [mm EXCEPT !.pager.past = pg, !.pager.numPages = pageNum + 1]
    IN  IF pageNum <= noOfPages
        THEN Bind([(IF seekOk THEN m ELSE Failed(m, "lseek_get")) EXCEPT !.pos = pos1],
                  LAMBDA m1 :
                    IF ~env.ok["read"]
                    THEN exit(Emit(Failed(m1, "read"), Cerr("Error reading file")), EXIT_FAILURE)
                    ELSE Bind(data, LAMBDA d :
                           install([m1 EXCEPT !.pos = pos1 + BLen(d)], memcpy(page, 0, d))))
        ELSE install(m, page)

\* faulty variant of getPage: the page is allocated and read from the file
\* at every call, whether or not its slot is occupied
getPageReloads(m, pageNum, env) ==
  IF m.pc = "exited" THEN m
  ELSE IF pageNum > TABLE_MAX_PAGES
  THEN exit(Emit(m, Cout("Tried to fetch page out of bounds.")), EXIT_FAILURE)
  ELSE IF Slot(m.pager, pageNum) = GUARD THEN exit(m, KILLED)
  ELSE
    LET page      == PageOf(BRep(env.heap, PAGE_SIZE))
        noOfPages == ShiftRight12(m.pager.fileSize)
        seekOk    == env.ok["lseek_get"]
        pos1      == IF seekOk THEN PageOffset(pageNum) ELSE m.pos
        data      == BSlice(m.file, pos1, PAGE_SIZE)
        install(mm, pg) ==
          IF pageNum < TABLE_MAX_PAGES
          THEN [mm EXCEPT !.pager.pages[pageNum] = pg,
                          !.pager.numPages = IF pageNum >= @ THEN pageNum + 1 ELSE @]
          ELSE [mm EXCEPT !.pager.past = pg,
                          !.pager.numPages = IF pageNum >= @ THEN pageNum + 1 ELSE @]
    IN  IF pageNum <= noOfPages
        THEN Bind([(IF seekOk THEN m ELSE Failed(m, "lseek_get")) EXCEPT !.pos = pos1],
                  LAMBDA m1 :
                    IF ~env.ok["read"]
                    THEN exit(Emit(Failed(m1, "read"), Cerr("Error reading file")), EXIT_FAILURE)
                    ELSE Bind(data, LAMBDA d :
                           install([m1 EXCEPT !.pos = pos1 + BLen(d)], memcpy(page, 0, d))))
        ELSE install(m, page)

\* faulty variant of getPage: on a miss the buffer is installed as malloc
\* returned it, without the read of the page from the file
getPageNoRead(m, pageNum, env) ==
  IF m.pc = "exited" THEN m
  ELSE IF pageNum > TABLE_MAX_PAGES
  THEN exit(Emit(m, Cout("Tried to fetch page out of bounds.")), EXIT_FAILURE)
  ELSE IF Slot(m.pager, pageNum) = GUARD THEN exit(m, KILLED)
  ELSE IF Slot(m.pager, pageNum) # NULL THEN m
  ELSE IF pageNum < TABLE_MAX_PAGES
  THEN [m EXCEPT !.pager.pages[pageNum] = PageOf(BRep(env.heap, PAGE_SIZE)),
                 !.pager.numPages = IF pageNum >= @ THEN pageNum + 1 ELSE @]
  ELSE [m EXCEPT !.pager.past = PageOf(BRep(env.heap, PAGE_SIZE)),
                 !.pager.numPages = IF pageNum >= @ THEN pageNum + 1 ELSE @]

\* the page is afterwards Slot(m.pager, pageNum)
getPage(m, pageNum, env) ==
  IF m.pc = "exited" THEN m
  ELSE IF pageNum > TABLE_MAX_PAGES
  THEN exit(Emit(m, Cout("Tried to fetch page out of bounds.")), EXIT_FAILURE)
  ELSE IF Slot(m.pager, pageNum) = GUARD THEN exit(m, KILLED)
  ELSE IF Slot(m.pager, pageNum) # NULL THEN m
  ELSE
    LET page      == PageOf(BRep(env.heap, PAGE_SIZE))
        noOfPages == ShiftRight12(m.pager.fileSize)
        seekOk    == env.ok["lseek_get"]
        pos1      == IF seekOk THEN PageOffset(pageNum) ELSE m.pos
        data      == BSlice(m.file, pos1, PAGE_SIZE)
        install(mm, pg) ==
          IF pageNum < TABLE_MAX_PAGES
          THEN [mm EXCEPT !.pager.pages[pageNum] = pg,
                          !.pager.numPages = IF pageNum >= @ THEN pageNum + 1 ELSE @]
          ELSE [mm EXCEPT !.pager.past = pg,
                          !.pager.numPages = IF pageNum >= @ THEN pageNum + 1 ELSE @]
    IN  IF pageNum <= noOfPages
        THEN Bind([(IF seekOk THEN m ELSE Failed(m, "lseek_get")) EXCEPT !.pos = pos1],
                  LAMBDA m1 :
                    IF ~env.ok["read"]
                    THEN exit(Emit(Failed(m1, "read"), Cerr("Error reading file")), EXIT_FAILURE)
                    ELSE Bind(data, LAMBDA d :
                           install([m1 EXCEPT !.pos = pos1 + BLen(d)], memcpy(page, 0, d))))
        ELSE install(m, page)

\* ------------------------------------------------------------------------
\* Flush and close                                    (src/main.c++ 399-463)
\* ------------------------------------------------------------------------
\* faulty variant of pagerFlush: the page is written where the descriptor
\* stands, without the seek to its offset
pagerFlushNoSeek(m, pageNum, env) ==
  IF m.pc = "exited" THEN m
  ELSE IF m.pager.pages[pageNum] = NULL
  THEN exit(Emit(m, Cerr("Tried to flush unallocated page")), EXIT_FAILURE)
  ELSE IF ~env.ok["write"]
  THEN exit(Emit(Failed(m, "write"), Cerr("Error writing to file")), EXIT_FAILURE)
  ELSE [m EXCEPT !.file = WriteAt(@, m.pos, PageBytes(m.pager.pages[pageNum])),
                 !.pos = m.pos + PAGE_SIZE]

\* faulty variant of pagerFlush: only the header and the cells in use are
\* written
pagerFlushUsedBytes(m, pageNum, env) ==
  IF m.pc = "exited" THEN m
  ELSE IF m.pager.pages[pageNum] = NULL
  THEN exit(Emit(m, Cerr("Tried to flush unallocated page")), EXIT_FAILURE)
  ELSE IF ~env.ok["lseek_flush"]
  THEN exit(Emit(Failed(m, "lseek_flush"), Cerr("Error seeking to page")), EXIT_FAILURE)
  ELSE IF ~env.ok["write"]
  THEN exit(Emit(Failed([m EXCEPT !.pos = PageOffset(pageNum)], "write"),
                  Cerr("Error writing to file")), EXIT_FAILURE)
  ELSE Bind(leafNodeCell(leafNodeNumCells(m.pager.pages[pageNum])), LAMBDA used :
         [m EXCEPT !.file = WriteAt(@, PageOffset(pageNum),
                                    BTake(PageBytes(m.pager.pages[pageNum]), used)),
                   !.pos = (PageOffset(pageNum)) + used])

\* the PAGE_SIZE bytes that write() finds at the address held by a slot; at
\* a pointer that is no page buffer it finds whatever the heap holds there
Pointee(slot, env) == IF slot = WILD THEN BRep(env.heap, PAGE_SIZE) ELSE PageBytes(slot)

\* faulty variant of pagerFlush: the file is cut off after the page written
pagerFlushTruncates(m, pageNum, env) ==
  IF m.pc = "exited" THEN m
  ELSE IF Slot(m.pager, pageNum) = GUARD THEN exit(m, KILLED)
  ELSE IF Slot(m.pager, pageNum) = NULL
  THEN exit(Emit(m, Cerr("Tried to flush unallocated page")), EXIT_FAILURE)
  ELSE IF ~env.ok["lseek_flush"]
  THEN exit(Emit(Failed(m, "lseek_flush"), Cerr("Error seeking to page")), EXIT_FAILURE)
  ELSE IF ~env.ok["write"]
  THEN exit(Emit(Failed([m EXCEPT !.pos = PageOffset(pageNum)], "write"),
                  Cerr("Error writing to file")), EXIT_FAILURE)
  ELSE [m EXCEPT !.file = BTake(WriteAt(@, PageOffset(pageNum),
                                        Pointee(Slot(m.pager, pageNum), env)),
                                PageOffset(pageNum) + PAGE_SIZE),
                 !.pos = (PageOffset(pageNum)) + PAGE_SIZE]

pagerFlush(m, pageNum, env) ==
  IF m.pc = "exited" THEN m
  ELSE IF Slot(m.pager, pageNum) = GUARD THEN exit(m, KILLED)
  ELSE IF Slot(m.pager, pageNum) = NULL
  THEN exit(Emit(m, Cerr("Tried to flush unallocated page")), EXIT_FAILURE)
  ELSE IF ~env.ok["lseek_flush"]
  THEN exit(Emit(Failed(m, "lseek_flush"), Cerr("Error seeking to page")), EXIT_FAILURE)
  ELSE IF ~env.ok["write"]
  THEN exit(Emit(Failed([m EXCEPT !.pos = PageOffset(pageNum)], "write"),
                  Cerr("Error writing to file")), EXIT_FAILURE)
  ELSE [m EXCEPT !.file = WriteAt(@, PageOffset(pageNum),
                                  Pointee(Slot(m.pager, pageNum), env)),
                 !.pos = (PageOffset(pageNum)) + PAGE_SIZE]

\* the loop of dbClose from slot i on: it goes to the next slot that is not
\* null (next) and flushes it.  numPages is not bounded by the
\* number of slots, so the loop may go on to pages[TABLE_MAX_PAGES]: read
\* where no memory is accessible the process is killed; a null pointer found
\* there is skipped; a pointer that is no page buffer is flushed and then
\* handed to free, which ends the process.
RECURSIVE dbCloseLoop(_, _, _)
dbCloseLoop(m, i, env) ==
  IF m.pc = "exited" THEN m
  ELSE IF \A j \in i .. m.pager.numPages - 1 : Slot(m.pager, j) = NULL THEN m
  ELSE Bind(CHOOSE j \in i .. m.pager.numPages - 1 :
              Slot(m.pager, j) # NULL /\ \A k \in i .. j - 1 : Slot(m.pager, k) = NULL,
            LAMBDA next :
    IF Slot(m.pager, next) = GUARD THEN exit(m, KILLED)
    ELSE Bind(pagerFlush(m, next, env), LAMBDA m1 :
           IF m1.pc = "exited" THEN m1
           ELSE IF Slot(m1.pager, next) = WILD THEN exit(m1, KILLED)
           ELSE IF next < TABLE_MAX_PAGES
           THEN dbCloseLoop([m1 EXCEPT !.pager.pages[next] = NULL], next + 1, env)
           ELSE dbCloseLoop([m1 EXCEPT !.pager.past = NULL], next + 1, env)))

\* faulty variant of dbClose: the descriptor is closed and the cached pages
\* are dropped without being flushed
dbCloseNoFlush(m, env) ==
  IF m.pc = "exited" THEN m
  ELSE Bind([m EXCEPT !.closeCalls = @ + 1,
                      !.pager.pages = [i \in 0 .. TABLE_MAX_PAGES - 1 |-> NULL]],
            LAMBDA m1 :
              IF ~env.ok["close"]
              THEN exit(Emit(Failed(m1, "close"), Cerr("Error closing DB file")), EXIT_FAILURE)
              ELSE m1)

dbClose(m, env) ==
  IF m.pc = "exited" THEN m
  ELSE Bind(dbCloseLoop([m EXCEPT !.closeCalls = @ + 1], 0, env), LAMBDA m1 :
         IF m1.pc = "exited" THEN m1
         ELSE IF ~env.ok["close"]
         THEN exit(Emit(Failed(m1, "close"), Cerr("Error closing DB file")), EXIT_FAILURE)
         ELSE m1)

\* ------------------------------------------------------------------------
\* Table                                              (src/main.c++ 323-336)
\* ------------------------------------------------------------------------
\* faulty variant of dbOpen: page 0 is initialized as an empty leaf whether
\* or not the file holds pages
dbOpenAlwaysInit(m, env) ==
  Bind(pagerOpen(m, env), LAMBDA p :
    IF p.pc = "exited" THEN p
    ELSE Bind(getPage([p EXCEPT !.rootPageNum = 0], 0, env), LAMBDA m2 :
           IF m2.pc = "exited" THEN m2
           ELSE [m2 EXCEPT !.pager.pages[0] = initializeLeafNode(@)]))

dbOpen(m, env) ==
  Bind(pagerOpen(m, env), LAMBDA p :
    IF p.pc = "exited" THEN p
    ELSE Bind([p EXCEPT !.rootPageNum = 0], LAMBDA m1 :
           IF m1.pager.numPages = 0
           THEN Bind(getPage(m1, 0, env), LAMBDA m2 :
                  IF m2.pc = "exited" THEN m2
                  ELSE [m2 EXCEPT !.pager.pages[0] = initializeLeafNode(@)])
           ELSE m1))

\* ------------------------------------------------------------------------
\* Rows                                    (src/main.c++ 45-49, 217-220, 380-390)
\* ------------------------------------------------------------------------
\* A Row is [id, username, email]: the 4 bytes of the uint32_t id, the 33
\* bytes of username and the 256 bytes of email.

\* faulty variant of structureRow: the email is copied with the size of the
\* username field
structureRowShortEmail(src, dst, at) ==
  memcpy(memcpy(memcpy(dst, at + ID_OFFSET, src.id),
                at + USERNAME_OFFSET, src.username),
         at + EMAIL_OFFSET, BTake(src.email, USERNAME_SIZE))

\* structureRow(src, (char *)dst + at)
structureRow(src, dst, at) ==
  memcpy(memcpy(memcpy(dst, at + ID_OFFSET, src.id),
                at + USERNAME_OFFSET, src.username),
         at + EMAIL_OFFSET, src.email)

\* destructureRow((char *)src + at, &row)
destructureRow(src, at) ==
  [id       |-> PageRead(src, at + ID_OFFSET, ID_SIZE),
   username |-> PageRead(src, at + USERNAME_OFFSET, USERNAME_SIZE),
   email    |-> PageRead(src, at + EMAIL_OFFSET, EMAIL_SIZE)]

\* the C string that starts a buffer: the bytes before the first NUL
CStr(buf) == BFind(buf, 0)

\* std::cout << id << username << email; a username without terminator runs
\* on into the email field, which follows it in the struct
printRow(row) ==
  [fd |-> 1, text |-> "ID: , Username: , Email: ",
   id |-> row.id,
   username |-> CStr(BCat(row.username, row.email)),
   email |-> CStr(row.email)]

\* ------------------------------------------------------------------------
\* Cursor                                             (src/main.c++ 339-397)
\* ------------------------------------------------------------------------
\* The functions that build a cursor return [m, cursor].

\* faulty variant of tableStart: the cursor is not at the end even when the
\* leaf has no cell
tableStartNotAtEnd(m, env) ==
  Bind(getPage(m, m.rootPageNum, env), LAMBDA m1 :
    [m |-> m1,
     cursor |-> [pageNum |-> m.rootPageNum, cellNum |-> 0,
                 endOfTable |-> m1.pc = "exited"]])

tableStart(m, env) ==
  Bind(getPage(m, m.rootPageNum, env), LAMBDA m1 :
    [m |-> m1,
     cursor |-> [pageNum |-> m.rootPageNum, cellNum |-> 0,
                 endOfTable |-> IF m1.pc = "exited" THEN TRUE
                                ELSE leafNodeNumCells(m1.pager.pages[m.rootPageNum]) = 0]])

\* faulty variant of tableEnd: the cursor is left on the first cell
tableEndAtFirstCell(m, env) ==
  [m |-> getPage(m, m.rootPageNum, env),
   cursor |-> [pageNum |-> m.rootPageNum, cellNum |-> 0, endOfTable |-> TRUE]]

tableEnd(m, env) ==
  Bind(getPage(m, m.rootPageNum, env), LAMBDA m1 :
    [m |-> m1,
     cursor |-> [pageNum |-> m.rootPageNum,
                 cellNum |-> IF m1.pc = "exited" THEN 0
                             ELSE leafNodeNumCells(m1.pager.pages[m.rootPageNum]),
                 endOfTable |-> TRUE]])

\* faulty variant of cursorAdvance: the end of the table is reached one cell
\* too late
cursorAdvanceLate(m, cursor, env) ==
  Bind(getPage(m, cursor.pageNum, env), LAMBDA m1 :
    [m |-> m1,
     cursor |-> [cursor EXCEPT
                   !.cellNum = @ + 1,
                   !.endOfTable =
                      IF m1.pc = "exited" THEN TRUE
                      ELSE IF cursor.cellNum + 1
                                > leafNodeNumCells(m1.pager.pages[cursor.pageNum])
                      THEN TRUE ELSE @]])

cursorAdvance(m, cursor, env) ==
  Bind(getPage(m, cursor.pageNum, env), LAMBDA m1 :
    [m |-> m1,
     cursor |-> [cursor EXCEPT
                   !.cellNum = @ + 1,
                   !.endOfTable =
                      IF m1.pc = "exited" THEN TRUE
                      ELSE IF cursor.cellNum + 1
                                >= leafNodeNumCells(m1.pager.pages[cursor.pageNum])
                      THEN TRUE ELSE @]])

\* byte offset, inside the page of the cursor, of the value it points at
cursorValue(cursor) == leafNodeValue(cursor.cellNum)

\* ------------------------------------------------------------------------
\* Leaf insertion                                     (src/main.c++ 417-436)
\* ------------------------------------------------------------------------
\* faulty variant of ShiftCells: the cells are moved in ascending order, each
\* one over the next before that one has been moved
RECURSIVE ShiftCellsAscending(_, _, _)
ShiftCellsAscending(node, i, cellNum) ==
  IF i > cellNum
  THEN Bind(ShiftCellsAscending(node, i - 1, cellNum), LAMBDA moved :
         memcpy(moved, leafNodeCell(i),
                PageRead(moved, leafNodeCell(i - 1), LEAF_NODE_CELL_SIZE)))
  ELSE node

\* the loop that moves cells i-1, ..., cellNum one cell to the right
RECURSIVE ShiftCells(_, _, _)
ShiftCells(node, i, cellNum) ==
  IF i > cellNum
  THEN ShiftCells(memcpy(node, leafNodeCell(i),
                         PageRead(node, leafNodeCell(i - 1), LEAF_NODE_CELL_SIZE)),
                  i - 1, cellNum)
  ELSE node

\* faulty variant of leafNodeInsert: the key stored in the cell is the
\* position of the cell, not the key passed
leafNodeInsertKeyOfPosition(m, cursor, key, value, env) ==
  Bind(getPage(m, cursor.pageNum, env), LAMBDA m1 :
    IF m1.pc = "exited" THEN m1
    ELSE
      Bind(m1.pager.pages[cursor.pageNum], LAMBDA node :
      Bind(leafNodeNumCells(node), LAMBDA numCells :
        IF numCells >= LEAF_NODE_MAX_CELLS
        THEN exit(Emit(m1, Cout("Need to implement splitting a leaf node.")), EXIT_FAILURE)
        ELSE
          Bind(IF cursor.cellNum < numCells
               THEN ShiftCells(node, numCells, cursor.cellNum)
               ELSE node, LAMBDA shifted :
          Bind(memcpy(shifted, LEAF_NODE_NUM_CELLS_OFFSET, U32Bytes(numCells + 1)),
               LAMBDA counted :
          Bind(memcpy(counted, leafNodeCell(cursor.cellNum), U32Bytes(cursor.cellNum)),
               LAMBDA keyed :
            [m1 EXCEPT !.pager.pages[cursor.pageNum] =
                         structureRow(value, keyed, leafNodeValue(cursor.cellNum))]))))))

leafNodeInsert(m, cursor, key, value, env) ==
  Bind(getPage(m, cursor.pageNum, env), LAMBDA m1 :
    IF m1.pc = "exited" THEN m1
    ELSE
      Bind(m1.pager.pages[cursor.pageNum], LAMBDA node :
      Bind(leafNodeNumCells(node), LAMBDA numCells :
        IF numCells >= LEAF_NODE_MAX_CELLS
        THEN exit(Emit(m1, Cout("Need to implement splitting a leaf node.")), EXIT_FAILURE)
        ELSE
          Bind(IF cursor.cellNum < numCells
               THEN ShiftCells(node, numCells, cursor.cellNum)
               ELSE node, LAMBDA shifted :
          Bind(memcpy(shifted, LEAF_NODE_NUM_CELLS_OFFSET, U32Bytes(numCells + 1)),
               LAMBDA counted :
          Bind(memcpy(counted, leafNodeCell(cursor.cellNum), key), LAMBDA keyed :
            [m1 EXCEPT !.pager.pages[cursor.pageNum] =
                         structureRow(value, keyed, leafNodeValue(cursor.cellNum))]))))))

\* ------------------------------------------------------------------------
\* Input lines and the stream extractions of prepareCommand
\* ------------------------------------------------------------------------
\* An input line is the sequence of its character codes.

IsSpace(c) == c \in {9, 10, 11, 12, 13, 32}
IsDigit(c) == c \in 48 .. 57

\* the length of the longest prefix of s whose characters all satisfy P
PrefixLen(s, P(_)) ==
  IF \E i \in 1 .. Len(s) : ~P(s[i])
  THEN (CHOOSE i \in 1 .. Len(s) : ~P(s[i]) /\ \A j \in 1 .. i - 1 : P(s[j])) - 1
  ELSE Len(s)

SkipWs(s) == SubSeq(s, PrefixLen(s, IsSpace) + 1, Len(s))

\* the leading characters of s that are not white space
Word(s) == LET NotSpace(c) == ~IsSpace(c) IN SubSeq(s, 1, PrefixLen(s, NotSpace))

DigitPrefix(s) == SubSeq(s, 1, PrefixLen(s, IsDigit))

\* stream >> std::string
ReadWord(s) ==
  Bind(SkipWs(s), LAMBDA t :
  Bind(Word(t), LAMBDA w :
    [ok |-> w # <<>>, tok |-> w, rest |-> SubSeq(t, Len(w) + 1, Len(t))]))

\* 10 * limbs + carry on a little-endian sequence of byte limbs; the carry
\* out of the last limb is appended as one more limb
RECURSIVE MulAdd10(_, _)
MulAdd10(limbs, carry) ==
  IF limbs = <<>> THEN <<carry>>
  ELSE <<(Head(limbs) * 10 + carry) % 256>>
         \o MulAdd10(Tail(limbs), (Head(limbs) * 10 + carry) \div 256)

\* the value of a digit string as 8 byte limbs, and whether it needs more
RECURSIVE Magnitude(_, _)
Magnitude(digits, acc) ==
  IF digits = <<>> THEN acc
  ELSE Bind(MulAdd10(acc.limbs, Head(digits) - 48), LAMBDA r :
         Magnitude(Tail(digits),
                   [limbs |-> SubSeq(r, 1, 8), over |-> acc.over \/ r[9] # 0]))

\* faulty variant of ReadInt64: the sign is read and dropped
ReadInt64SignDropped(s) ==
  Bind(SkipWs(s), LAMBDA t :
  Bind(t # <<>> /\ Head(t) = 45, LAMBDA minus :
  Bind(IF t # <<>> /\ Head(t) \in {43, 45} THEN Tail(t) ELSE t, LAMBDA body :
  Bind(DigitPrefix(body), LAMBDA digs :
  Bind(Magnitude(digs, [limbs |-> <<0, 0, 0, 0, 0, 0, 0, 0>>, over |-> FALSE]), LAMBDA mag :
    [ok |-> /\ digs # <<>>
            /\ ~mag.over
            /\ \/ mag.limbs[8] < 128
               \/ minus /\ mag.limbs = <<0, 0, 0, 0, 0, 0, 0, 128>>,
     negative |-> FALSE,
     limbs |-> mag.limbs,
     rest |-> SubSeq(body, Len(digs) + 1, Len(body))])))))

\* faulty variant of ReadInt64: the extraction fails when the value does not
\* fit in 32 bits
ReadInt32(s) ==
  Bind(SkipWs(s), LAMBDA t :
  Bind(t # <<>> /\ Head(t) = 45, LAMBDA minus :
  Bind(IF t # <<>> /\ Head(t) \in {43, 45} THEN Tail(t) ELSE t, LAMBDA body :
  Bind(DigitPrefix(body), LAMBDA digs :
  Bind(Magnitude(digs, [limbs |-> <<0, 0, 0, 0, 0, 0, 0, 0>>, over |-> FALSE]), LAMBDA mag :
    [ok |-> /\ digs # <<>>
            /\ ~mag.over
            /\ SubSeq(mag.limbs, 5, 8) = <<0, 0, 0, 0>>
            /\ \/ mag.limbs[8] < 128
               \/ minus /\ mag.limbs = <<0, 0, 0, 0, 0, 0, 0, 128>>,
     negative |-> minus /\ mag.limbs # <<0, 0, 0, 0, 0, 0, 0, 0>>,
     limbs |-> mag.limbs,
     rest |-> SubSeq(body, Len(digs) + 1, Len(body))])))))

\* stream >> int64_t: white space, an optional sign, decimal digits; fails
\* when there is no digit or the value does not fit in 64 signed bits
ReadInt64(s) ==
  Bind(SkipWs(s), LAMBDA t :
  Bind(t # <<>> /\ Head(t) = 45, LAMBDA minus :
  Bind(IF t # <<>> /\ Head(t) \in {43, 45} THEN Tail(t) ELSE t, LAMBDA body :
  Bind(DigitPrefix(body), LAMBDA digs :
  Bind(Magnitude(digs, [limbs |-> <<0, 0, 0, 0, 0, 0, 0, 0>>, over |-> FALSE]), LAMBDA mag :
    [ok |-> /\ digs # <<>>
            /\ ~mag.over
            /\ \/ mag.limbs[8] < 128
               \/ minus /\ mag.limbs = <<0, 0, 0, 0, 0, 0, 0, 128>>,
     negative |-> minus /\ mag.limbs # <<0, 0, 0, 0, 0, 0, 0, 0>>,
     limbs |-> mag.limbs,
     rest |-> SubSeq(body, Len(digs) + 1, Len(body))])))))

\* strncpy(dest, src.c_str(), n): the first n bytes of the C string, padded
\* with NULs up to n bytes
strncpy(src, n) ==
  Bind(BTake(CStr(BOf(src)), n), LAMBDA str : BCat(str, BRep(0, n - BLen(str))))

\* ------------------------------------------------------------------------
\* Statements                                         (src/main.c++ 513-590)
\* ------------------------------------------------------------------------
W_SELECT == <<83, 69, 76, 69, 67, 84>>
W_INSERT == <<73, 78, 83, 69, 82, 84>>
M_EXIT == <<46, 101, 120, 105, 116>>
M_BTREE == <<46, 98, 116, 114, 101, 101>>
M_CONSTANTS == <<46, 99, 111, 110, 115, 116, 97, 110, 116, 115>>

\* command.toBeInserted where prepareCommand has not filled it
NoRow == [id |-> <<>>, username |-> <<>>, email |-> <<>>]

\* faulty variant of prepareCommand: an email of COLUMN_EMAIL_SIZE bytes is
\* taken for too long
prepareCommandEmailBound(inputLine) ==
  Bind(ReadWord(inputLine), LAMBDA w :
    IF w.tok = W_SELECT
    THEN [result |-> "PREPARE_SUCCESS", type |-> "COMMAND_SELECT", toBeInserted |-> NoRow]
    ELSE IF w.tok = W_INSERT
    THEN
      Bind(ReadInt64(w.rest), LAMBDA id :
      Bind(ReadWord(id.rest), LAMBDA usrName :
      Bind(ReadWord(usrName.rest), LAMBDA email :
        IF ~(id.ok /\ usrName.ok /\ email.ok)
        THEN [result |-> "PREPARE_SYNTAX_ERROR", type |-> "COMMAND_INSERT",
              toBeInserted |-> NoRow]
        ELSE IF id.negative
        THEN [result |-> "PREPARE_NEGATIVE_ID", type |-> "COMMAND_INSERT",
              toBeInserted |-> NoRow]
        ELSE IF Len(usrName.tok) > COLUMN_USERNAME_SIZE
                \/ Len(email.tok) >= COLUMN_EMAIL_SIZE
        THEN [result |-> "PREPARE_STRING_TOO_LONG", type |-> "COMMAND_INSERT",
              toBeInserted |-> NoRow]
        ELSE [result |-> "PREPARE_SUCCESS", type |-> "COMMAND_INSERT",
              toBeInserted |->
                [id       |-> BOf(SubSeq(id.limbs, 1, ID_SIZE)),
                 username |-> BCat(strncpy(usrName.tok, COLUMN_USERNAME_SIZE), BRep(0, 1)),
                 email    |-> BCat(strncpy(email.tok, COLUMN_EMAIL_SIZE), BRep(0, 1))]])))
    ELSE [result |-> "PREPARE_UNRECOGNIZED_STATE", type |-> "none", toBeInserted |-> NoRow])

\* faulty variant of prepareCommand: the lengths of the strings are tested
\* before the sign of the id
prepareCommandLengthFirst(inputLine) ==
  Bind(ReadWord(inputLine), LAMBDA w :
    IF w.tok = W_SELECT
    THEN [result |-> "PREPARE_SUCCESS", type |-> "COMMAND_SELECT", toBeInserted |-> NoRow]
    ELSE IF w.tok = W_INSERT
    THEN
      Bind(ReadInt64(w.rest), LAMBDA id :
      Bind(ReadWord(id.rest), LAMBDA usrName :
      Bind(ReadWord(usrName.rest), LAMBDA email :
        IF ~(id.ok /\ usrName.ok /\ email.ok)
        THEN [result |-> "PREPARE_SYNTAX_ERROR", type |-> "COMMAND_INSERT",
              toBeInserted |-> NoRow]
        ELSE IF Len(usrName.tok) > COLUMN_USERNAME_SIZE
                \/ Len(email.tok) > COLUMN_EMAIL_SIZE
        THEN [result |-> "PREPARE_STRING_TOO_LONG", type |-> "COMMAND_INSERT",
              toBeInserted |-> NoRow]
        ELSE IF id.negative
        THEN [result |-> "PREPARE_NEGATIVE_ID", type |-> "COMMAND_INSERT",
              toBeInserted |-> NoRow]
        ELSE [result |-> "PREPARE_SUCCESS", type |-> "COMMAND_INSERT",
              toBeInserted |->
                [id       |-> BOf(SubSeq(id.limbs, 1, ID_SIZE)),
                 username |-> BCat(strncpy(usrName.tok, COLUMN_USERNAME_SIZE), BRep(0, 1)),
                 email    |-> BCat(strncpy(email.tok, COLUMN_EMAIL_SIZE), BRep(0, 1))]])))
    ELSE [result |-> "PREPARE_UNRECOGNIZED_STATE", type |-> "none", toBeInserted |-> NoRow])

\* returns [result, type, toBeInserted]
prepareCommand(inputLine) ==
  Bind(ReadWord(inputLine), LAMBDA w :
    IF w.tok = W_SELECT
    THEN [result |-> "PREPARE_SUCCESS", type |-> "COMMAND_SELECT", toBeInserted |-> NoRow]
    ELSE IF w.tok = W_INSERT
    THEN
      Bind(ReadInt64(w.rest), LAMBDA id :
      Bind(ReadWord(id.rest), LAMBDA usrName :
      Bind(ReadWord(usrName.rest), LAMBDA email :
        IF ~(id.ok /\ usrName.ok /\ email.ok)
        THEN [result |-> "PREPARE_SYNTAX_ERROR", type |-> "COMMAND_INSERT",
              toBeInserted |-> NoRow]
        ELSE IF id.negative
        THEN [result |-> "PREPARE_NEGATIVE_ID", type |-> "COMMAND_INSERT",
              toBeInserted |-> NoRow]
        ELSE IF Len(usrName.tok) > COLUMN_USERNAME_SIZE
                \/ Len(email.tok) > COLUMN_EMAIL_SIZE
        THEN [result |-> "PREPARE_STRING_TOO_LONG", type |-> "COMMAND_INSERT",
              toBeInserted |-> NoRow]
        ELSE [result |-> "PREPARE_SUCCESS", type |-> "COMMAND_INSERT",
              toBeInserted |->
                [id       |-> BOf(SubSeq(id.limbs, 1, ID_SIZE)),
                 username |-> BCat(strncpy(usrName.tok, COLUMN_USERNAME_SIZE), BRep(0, 1)),
                 email    |-> BCat(strncpy(email.tok, COLUMN_EMAIL_SIZE), BRep(0, 1))]])))
    ELSE [result |-> "PREPARE_UNRECOGNIZED_STATE", type |-> "none", toBeInserted |-> NoRow])

\* faulty variant of executeInsertCommand: the page is written to the file
\* as soon as the row is in it
executeInsertWriteThrough(m, command, env) ==
  Bind(getPage(m, m.rootPageNum, env), LAMBDA m1 :
    IF m1.pc = "exited" THEN [m |-> m1, result |-> "none"]
    ELSE IF leafNodeNumCells(m1.pager.pages[m.rootPageNum]) >= LEAF_NODE_MAX_CELLS
    THEN [m |-> m1, result |-> "EXECUTE_TABLE_FULL"]
    ELSE Bind(command.toBeInserted, LAMBDA rowToinsert :
         Bind(tableEnd(m1, env), LAMBDA c :
           [m |-> pagerFlush(leafNodeInsert(c.m, c.cursor, rowToinsert.id, rowToinsert, env),
                             m.rootPageNum, env),
            result |-> "EXECUTE_SUCCESS"])))

\* faulty variant of executeInsertCommand: the capacity test is off by one
executeInsertOffByOne(m, command, env) ==
  Bind(getPage(m, m.rootPageNum, env), LAMBDA m1 :
    IF m1.pc = "exited" THEN [m |-> m1, result |-> "none"]
    ELSE IF leafNodeNumCells(m1.pager.pages[m.rootPageNum]) > LEAF_NODE_MAX_CELLS
    THEN [m |-> m1, result |-> "EXECUTE_TABLE_FULL"]
    ELSE Bind(command.toBeInserted, LAMBDA rowToinsert :
         Bind(tableEnd(m1, env), LAMBDA c :
           [m |-> leafNodeInsert(c.m, c.cursor, rowToinsert.id, rowToinsert, env),
            result |-> "EXECUTE_SUCCESS"])))

\* faulty variant of executeInsertCommand: the row goes before the first cell
\* whose key is greater than its id, as in a leaf kept sorted
executeInsertSorted(m, command, env) ==
  Bind(getPage(m, m.rootPageNum, env), LAMBDA m1 :
    IF m1.pc = "exited" THEN [m |-> m1, result |-> "none"]
    ELSE IF leafNodeNumCells(m1.pager.pages[m.rootPageNum]) >= LEAF_NODE_MAX_CELLS
    THEN [m |-> m1, result |-> "EXECUTE_TABLE_FULL"]
    ELSE Bind(command.toBeInserted, LAMBDA rowToinsert :
         Bind(tableEnd(m1, env), LAMBDA c :
           [m |-> leafNodeInsert(
                    c.m,
                    [c.cursor EXCEPT !.cellNum =
                       Cardinality({i \in 0 .. c.cursor.cellNum - 1 :
                                      U32Of(leafNodeKey(c.m.pager.pages[m.rootPageNum], i))
                                        <= U32Of(rowToinsert.id)})],
                    rowToinsert.id, rowToinsert, env),
            result |-> "EXECUTE_SUCCESS"])))

\* faulty variant of executeInsertCommand: the capacity of the leaf is not
\* tested before the insertion
executeInsertUnchecked(m, command, env) ==
  Bind(getPage(m, m.rootPageNum, env), LAMBDA m1 :
    IF m1.pc = "exited" THEN [m |-> m1, result |-> "none"]
    ELSE Bind(command.toBeInserted, LAMBDA rowToinsert :
         Bind(tableEnd(m1, env), LAMBDA c :
           [m |-> leafNodeInsert(c.m, c.cursor, rowToinsert.id, rowToinsert, env),
            result |-> "EXECUTE_SUCCESS"])))

\* the execute functions return [m, result]
executeInsertCommand(m, command, env) ==
  Bind(getPage(m, m.rootPageNum, env), LAMBDA m1 :
    IF m1.pc = "exited" THEN [m |-> m1, result |-> "none"]
    ELSE IF leafNodeNumCells(m1.pager.pages[m.rootPageNum]) >= LEAF_NODE_MAX_CELLS
    THEN [m |-> m1, result |-> "EXECUTE_TABLE_FULL"]
    ELSE Bind(command.toBeInserted, LAMBDA rowToinsert :
         Bind(tableEnd(m1, env), LAMBDA c :
           [m |-> leafNodeInsert(c.m, c.cursor, rowToinsert.id, rowToinsert, env),
            result |-> "EXECUTE_SUCCESS"])))

\* the process is killed from outside (SIGKILL)
TERMINATED == 128 + 9

\* A read of len bytes at offset off of a page buffer that ends past the
\* buffer is an access outside the allocation, and what it finds is not
\* defined.  The memory there is not accessible (env.past = GUARD) and the
\* process is killed, or it holds bytes that are no part of the page
\* (env.heap); it is not accessible further than MaxBeyond cells past the
\* last whole cell of the page.
Faults(off, len, env) ==
  /\ off + len > PAGE_SIZE
  /\ \/ env.past = GUARD
     \/ off + len > leafNodeCell(LEAF_NODE_MAX_CELLS + MaxBeyond)

\* the memory that a read at an offset of the page buffer can reach
Around(page, env) ==
  BCat(PageBytes(page), BRep(env.heap, MaxBeyond * LEAF_NODE_CELL_SIZE))

\* destructureRow((char *)src + at, &row) where the Row does not lie inside
\* the page buffer
destructureRowBeyond(src, at, env) ==
  [id       |-> BSlice(Around(src, env), at + ID_OFFSET, ID_SIZE),
   username |-> BSlice(Around(src, env), at + USERNAME_OFFSET, USERNAME_SIZE),
   email    |-> BSlice(Around(src, env), at + EMAIL_OFFSET, EMAIL_SIZE)]

\* the loop of executeSelectCommand
RECURSIVE SelectLoop(_, _, _)
SelectLoop(m, cursor, env) ==
  IF m.pc = "exited" \/ cursor.endOfTable THEN m
  ELSE IF Faults(cursorValue(cursor), ROW_SIZE, env) THEN exit(m, KILLED)
  ELSE Bind(IF cursorValue(cursor) + ROW_SIZE > PAGE_SIZE
            THEN destructureRowBeyond(m.pager.pages[cursor.pageNum], cursorValue(cursor), env)
            ELSE destructureRow(m.pager.pages[cursor.pageNum], cursorValue(cursor)),
            LAMBDA row :
       Bind(cursorAdvance(Emit(m, printRow(row)), cursor, env), LAMBDA a :
         SelectLoop(a.m, a.cursor, env)))

executeSelectCommand(m, env) ==
  Bind(tableStart(m, env), LAMBDA c :
    [m |-> SelectLoop(c.m, c.cursor, env), result |-> "EXECUTE_SUCCESS"])

executeCommand(m, command, env) ==
  IF command.type = "COMMAND_INSERT" THEN executeInsertCommand(m, command, env)
  ELSE executeSelectCommand(m, env)

\* ------------------------------------------------------------------------
\* Meta commands                          (src/main.c++ 222-240, 473, 493-510)
\* ------------------------------------------------------------------------
printConstants(m) ==
  LET c(name, v) == [fd |-> 1, text |-> name, value |-> v]
  IN  Emit(Emit(Emit(Emit(Emit(Emit(m,
        c("ROW_SIZE : ", ROW_SIZE)),
        c("COMMON_NODE_HEADER_SIZE : ", COMMON_NODE_HEADER_SIZE)),
        c("LEAF_NODE_HEADER_SIZE : ", LEAF_NODE_HEADER_SIZE)),
        c("LEAF_NODE_CELL_SIZE : ", LEAF_NODE_CELL_SIZE)),
        c("LEAF_NODE_SPACE_FOR_CELLS : ", LEAF_NODE_SPACE_FOR_CELLS)),
        c("LEAF_NODE_MAX_CELLS : ", LEAF_NODE_MAX_CELLS))

\* the loop of printLeafNode from cell i on
RECURSIVE printLeafLoop(_, _, _, _, _)
printLeafLoop(m, node, i, numCells, env) ==
  IF m.pc = "exited" \/ i >= numCells THEN m
  ELSE IF Faults(leafNodeCell(i), LEAF_NODE_KEY_SIZE, env) THEN exit(m, KILLED)
  ELSE printLeafLoop(
         Emit(m, [fd |-> 1, text |-> "    - i : key", i |-> i,
                  key |-> IF leafNodeCell(i) + LEAF_NODE_KEY_SIZE > PAGE_SIZE
                          THEN BSlice(Around(node, env), leafNodeCell(i), LEAF_NODE_KEY_SIZE)
                          ELSE leafNodeKey(node, i)]),
         node, i + 1, numCells, env)

printLeafNode(m, node, env) ==
  Bind(leafNodeNumCells(node), LAMBDA numCells :
    printLeafLoop(Emit(m, [fd |-> 1, text |-> "Leaf (Size : )", numCells |-> numCells]),
                  node, 0, numCells, env))

closeInput(m) == Emit(m, Cout("Goodbye!"))

\* faulty variant of selectAndDoMetaCommand: a meta command that is not known
\* ends the session as .exit does
selectAndDoMetaCommandElseExit(m, inputLine, env) ==
  IF inputLine = M_BTREE
  THEN Bind(getPage(Emit(m, Cout("Tree :")), 0, env), LAMBDA m1 :
         [m |-> IF m1.pc = "exited" THEN m1 ELSE printLeafNode(m1, m1.pager.pages[0], env),
          result |-> "META_COMMAND_SUCCESS"])
  ELSE IF inputLine = M_CONSTANTS
  THEN [m |-> printConstants(Emit(m, Cout("Constants :"))), result |-> "META_COMMAND_SUCCESS"]
  ELSE [m |-> exit(closeInput(dbClose(m, env)), EXIT_SUCCESS), result |-> "none"]

\* faulty variant of selectAndDoMetaCommand: .exit prints Goodbye! before it
\* closes the table, as the end of input does
selectAndDoMetaCommandGoodbyeFirst(m, inputLine, env) ==
  IF inputLine = M_EXIT
  THEN [m |-> exit(dbClose(closeInput(m), env), EXIT_SUCCESS), result |-> "none"]
  ELSE IF inputLine = M_BTREE
  THEN Bind(getPage(Emit(m, Cout("Tree :")), 0, env), LAMBDA m1 :
         [m |-> IF m1.pc = "exited" THEN m1 ELSE printLeafNode(m1, m1.pager.pages[0], env),
          result |-> "META_COMMAND_SUCCESS"])
  ELSE IF inputLine = M_CONSTANTS
  THEN [m |-> printConstants(Emit(m, Cout("Constants :"))), result |-> "META_COMMAND_SUCCESS"]
  ELSE [m |-> m, result |-> "META_UNRECOGNIZED_COMMAND"]

\* faulty variant of selectAndDoMetaCommand: .exit ends the process without
\* closing the table
selectAndDoMetaCommandNoClose(m, inputLine, env) ==
  IF inputLine = M_EXIT
  THEN [m |-> exit(closeInput(m), EXIT_SUCCESS), result |-> "none"]
  ELSE IF inputLine = M_BTREE
  THEN Bind(getPage(Emit(m, Cout("Tree :")), 0, env), LAMBDA m1 :
         [m |-> IF m1.pc = "exited" THEN m1 ELSE printLeafNode(m1, m1.pager.pages[0], env),
          result |-> "META_COMMAND_SUCCESS"])
  ELSE IF inputLine = M_CONSTANTS
  THEN [m |-> printConstants(Emit(m, Cout("Constants :"))), result |-> "META_COMMAND_SUCCESS"]
  ELSE [m |-> m, result |-> "META_UNRECOGNIZED_COMMAND"]

\* returns [m, result]
selectAndDoMetaCommand(m, inputLine, env) ==
  IF inputLine = M_EXIT
  THEN [m |-> exit(closeInput(dbClose(m, env)), EXIT_SUCCESS), result |-> "none"]
  ELSE IF inputLine = M_BTREE
  THEN Bind(getPage(Emit(m, Cout("Tree :")), 0, env), LAMBDA m1 :
         [m |-> IF m1.pc = "exited" THEN m1 ELSE printLeafNode(m1, m1.pager.pages[0], env),
          result |-> "META_COMMAND_SUCCESS"])
  ELSE IF inputLine = M_CONSTANTS
  THEN [m |-> printConstants(Emit(m, Cout("Constants :"))), result |-> "META_COMMAND_SUCCESS"]
  ELSE [m |-> m, result |-> "META_UNRECOGNIZED_COMMAND"]

\* ------------------------------------------------------------------------
\* main                                               (src/main.c++ 596-670)
\* ------------------------------------------------------------------------
\* What readLine delivers: a line, the end of the input, or a read error.
Line(text) == [kind |-> "line", text |-> text]
EndOfInput == [kind |-> "eof", text |-> <<>>]
InputError == [kind |-> "error", text |-> <<>>]

\* a diagnostic that quotes the input line
Quote(text, inputLine) == [fd |-> 1, text |-> text, line |-> inputLine]

\* one iteration of the loop of main
mainLoop(m, input, env) ==
  Bind(Emit([m EXCEPT !.out = <<>>, !.inputLine = input.text], Cout("SQLite > ")), LAMBDA m0 :
  Bind(input.text, LAMBDA inputLine :
    IF input.kind = "eof"
    THEN exit(dbClose(closeInput(Emit(m0, Cout(""))), env), EXIT_SUCCESS)
    ELSE IF input.kind = "error"
    THEN exit(dbClose(Emit(m0, Cerr("Error reading input")), env), EXIT_FAILURE)
    ELSE IF inputLine = <<>>
    THEN Emit(m0, Cout("Unrecognized Input"))
    ELSE IF inputLine[1] = 46
    THEN Bind(selectAndDoMetaCommand(m0, inputLine, env), LAMBDA meta :
           IF meta.result = "META_UNRECOGNIZED_COMMAND"
           THEN Emit(meta.m, Quote("Unexpected Input: ''", inputLine))
           ELSE meta.m)
    ELSE
      Bind(prepareCommand(inputLine), LAMBDA command :
        IF command.result = "PREPARE_SYNTAX_ERROR"
        THEN Emit(m0, Cout("Syntax error. Could not parse command."))
        ELSE IF command.result = "PREPARE_STRING_TOO_LONG"
        THEN Emit(m0, Cout("String too long. Could not insert."))
        ELSE IF command.result = "PREPARE_NEGATIVE_ID"
        THEN Emit(m0, Cout("Negative ID. Could not insert."))
        ELSE IF command.result = "PREPARE_UNRECOGNIZED_STATE"
        THEN Emit(m0, Quote("Unrecognized keyword in ''", inputLine))
        ELSE Bind(executeCommand(m0, command, env), LAMBDA e :
               IF e.result = "EXECUTE_SUCCESS" THEN Emit(e.m, Cout("Executed"))
               ELSE IF e.result = "EXECUTE_TABLE_FULL"
               THEN Emit(e.m, Cout("Error: Table full."))
               ELSE e.m))))

\* main up to the loop: the argument check and dbOpen
mainStart(m, argc, env) ==
  IF argc < 2
  THEN exit(Emit(m, Cerr("Must provide a DB filename.")), EXIT_FAILURE)
  ELSE dbOpen(m, env)

\* ------------------------------------------------------------------------
\* State
\* ------------------------------------------------------------------------
VARIABLES
  file,         \* bytes of the database file on disk
  pos,          \* file offset of pager->fd
  pager,        \* the Pager of the running process
  rootPageNum,  \* table->rootPageNum
  inputLine,    \* the line main has read last
  out,          \* lines written by the last iteration of main (or by its start)
  pc,           \* "off": never run; "repl": in the loop of main; "exited"
  exitStatus,   \* exit status of the process, -1 while it runs
  closeCalls,   \* number of calls of dbClose made by the process
  failed,       \* system calls that returned -1 in the process
  inserted,     \* rows of the INSERTs answered with Executed, over all runs
  runInserts,   \* number of those made by the current run
  runs,         \* number of runs started
  fed,          \* number of INSERT lines of the script read so far, over all runs
  ended,        \* how the run before the current one ended
  asked,        \* page numbers of the calls of getPage made one by one
  cursor,       \* the Cursor that was made or moved last, and by which function
  flushed       \* page numbers of the calls of pagerFlush made one by one

vars == <<file, pos, pager, rootPageNum, inputLine, out, pc, exitStatus,
          closeCalls, failed, inserted, runInserts, runs, fed, ended, asked,
          cursor, flushed>>

\* the record the C functions work on
Machine ==
  [file |-> file, pos |-> pos, pager |-> pager, rootPageNum |-> rootPageNum,
   inputLine |-> inputLine, out |-> out, pc |-> pc, exitStatus |-> exitStatus,
   closeCalls |-> closeCalls, failed |-> failed]

Becomes(m) ==
  /\ file' = m.file
  /\ pos' = m.pos
  /\ pager' = m.pager
  /\ rootPageNum' = m.rootPageNum
  /\ inputLine' = m.inputLine
  /\ out' = m.out
  /\ pc' = m.pc
  /\ exitStatus' = m.exitStatus
  /\ closeCalls' = m.closeCalls
  /\ failed' = m.failed

NoPager ==
  [fileSize |-> ToU32(0), numPages |-> 0,
   pages |-> [i \in 0 .. TABLE_MAX_PAGES - 1 |-> NULL], past |-> WILD]

\* no cursor has been made
NoCursor ==
  [made |-> "none", c |-> [pageNum |-> 0, cellNum |-> 0, endOfTable |-> FALSE]]

\* a process at the beginning of main, on the file as it is on disk
NewProcess ==
  [file |-> file, pos |-> 0, pager |-> NoPager, rootPageNum |-> 0,
   inputLine |-> <<>>, out |-> <<>>, pc |-> "repl", exitStatus |-> -1,
   closeCalls |-> 0, failed |-> {}]

\* ------------------------------------------------------------------------
\* Environments and inputs
\* ------------------------------------------------------------------------
\* bytes found in memory that malloc returns
Heap == {0, 85}

\* every system call succeeds
EnvsOK == {[ok |-> [c \in Sites |-> TRUE], heap |-> h, past |-> WILD] : h \in Heap}

\* any system call may fail
EnvsIO == [ok : [Sites -> BOOLEAN], heap : Heap, past : {WILD}]

\* every system call succeeds; the memory past pages[] is any of the three
EnvsUB == [ok : {[c \in Sites |-> TRUE]}, heap : Heap, past : {NULL, WILD, GUARD}]

Rep(c, n) == [i \in 1 .. n |-> c]

RECURSIVE Join(_)
Join(words) ==
  IF Len(words) = 1 THEN words[1]
  ELSE words[1] \o <<32>> \o Join(Tail(words))

\* the decimal digits of k < 100
Dec(k) == IF k < 10 THEN <<48 + k>> ELSE <<48 + (k \div 10), 48 + (k % 10)>>

\* The INSERT lines of the input, in the order they are typed: the ids are
\* 7, 3, 3, 0, 12, 7, ... (not increasing, with repeats); the first line has
\* the longest username accepted (32 u), the second the longest email
\* accepted (255 e), the others bob and b@x.
InsertIds == <<7, 3, 3, 0, 12>>

InsertLine(k) ==
  Join(<<W_INSERT, Dec(InsertIds[((k - 1) % Len(InsertIds)) + 1]),
         IF k = 1 THEN Rep(117, COLUMN_USERNAME_SIZE) ELSE <<98, 111, 98>>,
         IF k = 2 THEN Rep(101, COLUMN_EMAIL_SIZE) ELSE <<98, 64, 120>>>>)

\* lines that main answers with a diagnostic: the empty line and
\* INSERT -7 bob b@x
BlankLine == <<>>

NegativeIdLine == Join(<<W_INSERT, <<45, 55>>, <<98, 111, 98>>, <<98, 64, 120>>>>)

\* the row an INSERT line asks for: the id as stored in the Row, and the
\* username and email as typed
TypedRow(line) ==
  Bind(ReadInt64(ReadWord(line).rest), LAMBDA id :
  Bind(ReadWord(id.rest), LAMBDA usrName :
    [id |-> BOf(SubSeq(id.limbs, 1, ID_SIZE)),
     username |-> BOf(usrName.tok), email |-> BOf(ReadWord(usrName.rest).tok)]))

\* the line SELECT prints for a typed row
Printed(r) ==
  [fd |-> 1, text |-> "ID: , Username: , Email: ",
   id |-> r.id, username |-> r.username, email |-> r.email]

Executed(m) == m.out # <<>> /\ m.out[Len(m.out)] = Cout("Executed")

\* ------------------------------------------------------------------------
\* Actions
\* ------------------------------------------------------------------------
\* The environments of E that differ in what a step can observe: calls are
\* the call sites the step may reach, and the heap is read only by a step
\* that may call malloc.
Envs(E, calls, mallocs) ==
  {e \in E : /\ \A c \in Sites \ calls : e.ok[c]
             /\ mallocs \/ e.heap = 0}

\* getPage(pager, 0) calls malloc, lseek and read on a miss only
GetCalls == IF pager.pages[0] = NULL THEN {"lseek_get", "read"} ELSE {}

\* dbClose flushes the occupied slots (main occupies slot 0 only), then
\* closes the descriptor
CloseCalls ==
  IF pager.pages[0] = NULL THEN {"close"} ELSE {"lseek_flush", "write", "close"}

\* how the process that has exited came to its end
HowEnded ==
  IF pc = "off" THEN "none"
  ELSE IF closeCalls = 0 THEN "abort"
  ELSE IF failed # {} THEN "abort in close"
  ELSE IF inputLine = M_EXIT THEN ".exit"
  ELSE IF exitStatus = EXIT_SUCCESS THEN "eof"
  ELSE "read error"

\* the program is started on the database file
Start(E) ==
  /\ pc \in {"off", "exited"}
  /\ runs < MaxRuns
  /\ \E argc \in {1, 2}, env \in Envs(E, {"open", "lseek_end", "lseek_get", "read"}, TRUE) :
       Becomes(mainStart(NewProcess, argc, env))
  /\ runs' = runs + 1
  /\ runInserts' = 0
  /\ ended' = HowEnded
  /\ UNCHANGED <<inserted, fed, asked, cursor, flushed>>

\* an iteration of main that reads something else than an INSERT line
Iterate(input, E, calls) ==
  /\ pc = "repl"
  /\ \E env \in Envs(E, calls, pager.pages[0] = NULL) :
       Becomes(mainLoop(Machine, input, env))
  /\ UNCHANGED <<inserted, runInserts, runs, fed, ended, asked, cursor, flushed>>

\* an iteration of main that reads the next INSERT line of the script
Insert(E, lines) ==
  /\ pc = "repl"
  /\ fed < lines
  /\ \E env \in Envs(E, GetCalls, pager.pages[0] = NULL) :
       \E m \in {mainLoop(Machine, Line(InsertLine(fed + 1)), env)} :
         /\ Becomes(m)
         /\ inserted' = IF Executed(m) THEN Append(inserted, TypedRow(InsertLine(fed + 1)))
                        ELSE inserted
         /\ runInserts' = IF Executed(m) THEN runInserts + 1 ELSE runInserts
  /\ fed' = fed + 1
  /\ UNCHANGED <<runs, ended, asked, cursor, flushed>>

Select(E) == Iterate(Line(W_SELECT), E, GetCalls)

MetaExit(E) == Iterate(Line(M_EXIT), E, CloseCalls)

MetaBtree(E) == Iterate(Line(M_BTREE), E, GetCalls)

MetaConstants(E) == Iterate(Line(M_CONSTANTS), E, {})

\* an iteration of main that reads a line it answers with a diagnostic
Rejected(E, lines) == \E line \in lines : Iterate(Line(line), E, {})

Eof(E) == Iterate(EndOfInput, E, CloseCalls)

ReadError(E) == Iterate(InputError, E, CloseCalls)

\* the process is killed between two iterations of main
Kill ==
  /\ pc = "repl"
  /\ Becomes(exit(Machine, TERMINATED))
  /\ UNCHANGED <<inserted, runInserts, runs, fed, ended, asked, cursor, flushed>>

\* no process yet; the database file holds the bytes f
InitWith(f) ==
  /\ file = f
  /\ pos = 0
  /\ pager = NoPager
  /\ rootPageNum = 0
  /\ inputLine = <<>>
  /\ out = <<>>
  /\ pc = "off"
  /\ exitStatus = -1
  /\ closeCalls = 0
  /\ failed = {}
  /\ inserted = <<>>
  /\ runInserts = 0
  /\ runs = 0
  /\ fed = 0
  /\ ended = "none"
  /\ asked = <<>>
  /\ cursor = NoCursor
  /\ flushed = <<>>

\* no database file yet
Init == InitWith(<<>>)


\* every system call succeeds
Next ==
  \/ Start(EnvsOK)
  \/ Insert(EnvsOK, MaxInsertLines)
  \/ Select(EnvsOK)
  \/ MetaExit(EnvsOK)
  \/ MetaBtree(EnvsOK)
  \/ MetaConstants(EnvsOK)
  \/ Rejected(EnvsOK, {BlankLine, NegativeIdLine})
  \/ Eof(EnvsOK)
  \/ ReadError(EnvsOK)

Spec == Init /\ [][Next]_vars

\* any system call may fail, and the process may be killed
NextIO ==
  \/ Start(EnvsIO)
  \/ Insert(EnvsIO, MaxInsertLinesIO)
  \/ Select(EnvsIO)
  \/ MetaExit(EnvsIO)
  \/ MetaBtree(EnvsIO)
  \/ MetaConstants(EnvsIO)
  \/ Rejected(EnvsIO, {BlankLine})
  \/ Eof(EnvsIO)
  \/ ReadError(EnvsIO)
  \/ Kill

\* a file that does not end on a page boundary
PartialFile == BRep(0, PAGE_SIZE + 100)

\* no database file yet, or a file that the program has not written
InitIO == \E f \in {<<>>, PartialFile} : InitWith(f)

SpecIO == InitIO /\ [][NextIO]_vars

\* ------------------------------------------------------------------------
\* Properties
\* ------------------------------------------------------------------------
\* the rows among the lines printed by the last iteration of main
RowsOf(lines) == SelectSeq(lines, LAMBDA l : l.text = "ID: , Username: , Email: ")

\* what SELECT prints for a sequence of typed rows
PrintedRows(rows) == [i \in 1 .. Len(rows) |-> Printed(rows[i])]

\* the last iteration of main has run SELECT
Selected == pc = "repl" /\ inputLine = W_SELECT

\* C1 (persistence): when the rows of successful INSERTs have been followed
\* by .exit and the program is started again on the same file, a SELECT made
\* before any further INSERT prints exactly those rows, in the same order.
C1_Persistence ==
  (Selected /\ ended = ".exit" /\ runInserts = 0)
    => RowsOf(out) = PrintedRows(inserted)

\* a SELECT in the second run prints the three rows that the first run
\* inserted before its .exit
C1_Witness ==
  /\ Selected /\ ended = ".exit" /\ runInserts = 0
  /\ Len(inserted) = 3
  /\ Len(RowsOf(out)) = 3

\* the last line the last iteration of main has printed
Answer == out[Len(out)]

\* the root leaf as cached and as stored in the file
Leaf == pager.pages[0]

FileLeaf == PageOf(BSlice(file, 0, PAGE_SIZE))

\* the Row structs stored in the cells of a leaf, in cell order
RowsIn(node) ==
  [i \in 1 .. leafNodeNumCells(node) |-> destructureRow(node, leafNodeValue(i - 1))]

\* the Row structs of the first n INSERT lines of the input
FirstRows(n) == [i \in 1 .. n |-> prepareCommand(InsertLine(i)).toBeInserted]

\* the last iteration of main has read the INSERT line that is the fed-th
Inserting == pc = "repl" /\ fed > 0 /\ inputLine = InsertLine(fed)

\* the last run has ended by .exit, and no other has done anything since
AfterExit ==
  \/ pc = "exited" /\ HowEnded = ".exit"
  \/ pc = "repl" /\ out = <<>> /\ ended = ".exit"

CapacityKept ==
  /\ (Inserting /\ fed <= LEAF_NODE_MAX_CELLS)
       => /\ Answer = Cout("Executed")
          /\ RowsIn(Leaf) = FirstRows(fed)
  /\ (Inserting /\ fed > LEAF_NODE_MAX_CELLS)
       => /\ Answer = Cout("Error: Table full.")
          /\ RowsIn(Leaf) = FirstRows(LEAF_NODE_MAX_CELLS)
  /\ (AfterExit /\ fed >= LEAF_NODE_MAX_CELLS)
       => RowsIn(FileLeaf) = FirstRows(LEAF_NODE_MAX_CELLS)

\* C2 (capacity): on a database that starts fresh, each of the first 13
\* INSERTs is answered with Executed and adds its row at the end of the leaf;
\* the 14th and every later INSERT is answered with "Error: Table full." and
\* leaves the leaf as it was, byte for byte; after a .exit made once 13 rows
\* are in, and when the file is opened again, the file holds exactly the
\* first 13 rows, in order.
C2_Capacity ==
  /\ []CapacityKept
  /\ [][(pc = "repl" /\ fed' = fed + 1 /\ fed >= LEAF_NODE_MAX_CELLS /\ Leaf # NULL)
          => Leaf' = Leaf]_vars

\* the program has been started again after a run that read 14 INSERT lines
\* and then .exit; the file holds 13 rows
C2_Witness ==
  /\ pc = "repl" /\ out = <<>> /\ ended = ".exit"
  /\ fed = LEAF_NODE_MAX_CELLS + 1
  /\ Len(inserted) = LEAF_NODE_MAX_CELLS
  /\ leafNodeNumCells(FileLeaf) = LEAF_NODE_MAX_CELLS

\* C3 (leaf bound): between the operations of a session started on an empty
\* file or on a file that the program wrote and closed before, num_cells of
\* the root leaf, as cached and as stored in the file, is at most
\* LEAF_NODE_MAX_CELLS (13).
C3_LeafBound ==
  pc = "repl" =>
    /\ Leaf # NULL => leafNodeNumCells(Leaf) <= 13
    /\ BLen(file) >= PAGE_SIZE => leafNodeNumCells(FileLeaf) <= 13

\* an INSERT has been refused on the full leaf of a session that found rows
\* in the file
C3_Witness ==
  /\ Inserting /\ fed > 13 /\ runs > 1 /\ runInserts > 0
  /\ leafNodeNumCells(Leaf) = 13
  /\ BLen(file) >= PAGE_SIZE /\ leafNodeNumCells(FileLeaf) < 13

\* C4 (durability only at close): a step of the process in which dbClose is
\* not called (an INSERT, a SELECT, .btree, .constants, a rejected line, the
\* open itself, a fatal error, the death of the process) leaves the bytes and
\* the length of the database file as they were.
C4_DurableAtClose ==
  [][(pc # "repl" \/ closeCalls' = closeCalls) => file' = file]_vars

\* a process has ended without reaching dbClose after an INSERT answered with
\* Executed; the file still is as it was at open, empty
C4_Witness ==
  /\ pc = "exited" /\ closeCalls = 0
  /\ runs = 1 /\ runInserts > 0
  /\ file = <<>>

\* C5 (visibility): a SELECT made after an INSERT answered with Executed in
\* the same session prints the rows that were in the table before, in their
\* order, and then the rows inserted by the session, the latest as its last
\* row.
C5_Visibility ==
  (Selected /\ runInserts > 0) =>
    /\ RowsOf(out) = PrintedRows(inserted)
    /\ RowsOf(out)[Len(RowsOf(out))] = Printed(TypedRow(InsertLine(Len(inserted))))

\* a SELECT of the second session prints two rows found in the file and
\* then the row the session has inserted
C5_Witness ==
  /\ Selected /\ runs = 2 /\ runInserts = 1
  /\ Len(inserted) = 3
  /\ Len(RowsOf(out)) = 3

\* the process has ended, and not by being killed from outside
Exited == pc = "exited" /\ exitStatus # TERMINATED

\* the exit paths of main, told by what its last iteration read and printed
ByExitCommand == Exited /\ inputLine = M_EXIT
ByEof == Exited /\ Len(out) >= 2 /\ out[2] = Cout("")
ByReadError == Exited /\ Len(out) >= 2 /\ out[2] = Cerr("Error reading input")

\* C6 as stated: on every exit path of the process dbClose has been called
\* exactly once when the process ends.
C6_EveryExitPath == Exited => closeCalls = 1

\* C6 (close on exit), amended: on the exit paths .exit, EOF on standard
\* input and input read error dbClose has been called exactly once when the
\* process ends; on the others (missing argument, fatal error outside
\* dbClose) it has not been called, and the exit status is not success; on
\* no path is it called twice.
C6_CloseOnce ==
  Exited =>
    /\ closeCalls <= 1
    /\ (ByExitCommand \/ ByEof \/ ByReadError) => closeCalls = 1
    /\ closeCalls = 0 => exitStatus # EXIT_SUCCESS

\* the process has ended on an input read error, after one call of dbClose
\* that wrote the row inserted by the session
C6_Witness ==
  /\ ByReadError /\ closeCalls = 1 /\ exitStatus = EXIT_FAILURE
  /\ runInserts = 1 /\ failed = {}
  /\ BLen(file) = PAGE_SIZE

\* the page slots
Slots == 0 .. TABLE_MAX_PAGES - 1

\* a step in which dbClose is called and returns
CloseReturns == closeCalls' = closeCalls + 1 /\ failed' = failed

\* C7 (close empties the cache): while the session runs every occupied page
\* slot has an index below num_pages; when dbClose returns, every page slot
\* is empty and every page that was in a slot is in the file at offset
\* page_num * PAGE_SIZE.
C7_CloseFlushesAll ==
  /\ [](pc = "repl" => \A i \in Slots : pager.pages[i] # NULL => i < pager.numPages)
  /\ [][CloseReturns =>
          \A i \in Slots :
            /\ pager'.pages[i] = NULL
            /\ pager.pages[i] # NULL
                 => BSlice(file', PageOffset(i), PAGE_SIZE) = PageBytes(pager.pages[i])]_vars

\* dbClose has returned in a session that found a row in the file and
\* inserted another: the file holds the page with both
C7_Witness ==
  /\ pc = "exited" /\ closeCalls = 1 /\ failed = {}
  /\ runs = 2 /\ runInserts = 1 /\ Len(inserted) = 2
  /\ \A i \in Slots : pager.pages[i] = NULL
  /\ leafNodeNumCells(FileLeaf) = 2

\* dbClose has been called and has returned, and nothing has been done since
Closed ==
  /\ pc = "exited" /\ closeCalls = 1
  /\ failed \cap {"lseek_flush", "write", "close"} = {}

\* C8 (whole pages): when a session has ended in a normal close, the length
\* of the file is num_pages * 4096, a multiple of 4096; a database that was
\* fresh when the session opened it is exactly one page (4096 bytes) long.
C8_WholePages ==
  Closed =>
    /\ BLen(file) = pager.numPages * PAGE_SIZE
    /\ BLen(file) % 4096 = 0
    /\ (runs = 1 => BLen(file) = 4096)

\* a fresh database has been opened and closed at once; the file is one page
C8_Witness ==
  /\ Closed /\ runs = 1 /\ fed = 0 /\ inputLine = M_EXIT
  /\ BLen(file) = 4096

\* C9 as stated: once a system call of the pager (open, lseek, read, write,
\* close) has returned -1, the process has ended with failure status.
C9_EveryFailureFatal == failed # {} => (pc = "exited" /\ exitStatus = EXIT_FAILURE)

\* the diagnostics of the fatal errors
FatalMessages ==
  {Cerr("Unable to open file"),
   Cerr("DB file doesn't have whole number of Pages. Corrupted file."),
   Cout("Tried to fetch page out of bounds."),
   Cerr("Error reading file"),
   Cerr("Tried to flush unallocated page"),
   Cerr("Error seeking to page"),
   Cerr("Error writing to file"),
   Cerr("Error closing DB file"),
   Cout("Need to implement splitting a leaf node.")}

\* the process has ended on a fatal error
Fatal == pc = "exited" /\ out # <<>> /\ Answer \in FatalMessages

\* a step that ends the process on a fatal error
FatalStep == (pc = "repl" \/ runs' # runs) /\ Fatal'

\* C10 (fatal errors flush nothing): when a fatal error occurs the process
\* ends with failure status, and the file keeps exactly what had been written
\* before the error: it is as it was before the step, or, when the error is
\* the failure of close() at the end of dbClose, as the flush that dbClose had
\* completed before left it.
C10_FatalFlushesNothing ==
  [][FatalStep =>
       /\ exitStatus' = EXIT_FAILURE
       /\ \/ file' = file
          \/ /\ Answer' = Cerr("Error closing DB file")
             /\ Leaf # NULL
             /\ file' = WriteAt(file, 0, PageBytes(Leaf))]_vars

\* the process has ended on a failed write in dbClose in a session that had
\* inserted a row: the page with the row is still in its slot, and the file
\* is as it was, empty
C10_Witness ==
  /\ Fatal /\ Answer = Cerr("Error writing to file")
  /\ exitStatus = EXIT_FAILURE
  /\ runInserts = 1
  /\ Leaf # NULL /\ leafNodeNumCells(Leaf) = 1
  /\ file = <<>>

\* ------------------------------------------------------------------------
\* A session in which the user makes mistakes
\* ------------------------------------------------------------------------
\* INSERT lines of the input of such a session
MaxInsertLinesUser == 14

\* INSERT 1 dan
TwoTokenLine == Join(<<W_INSERT, <<49>>, <<100, 97, 110>>>>)

\* INSERT 1 u..u c@x with 33 u
LongNameLine ==
  Join(<<W_INSERT, <<49>>, Rep(117, COLUMN_USERNAME_SIZE + 1), <<99, 64, 120>>>>)

\* FOO
KeywordLine == <<70, 79, 79>>

\* select: the keyword in lower case
LowerCaseLine == <<115, 101, 108, 101, 99, 116>>

\* .foo
MetaLine == <<46, 102, 111, 111>>

\* the mistakes and the diagnostic the REPL driver has for each
Mistakes ==
  {[line |-> BlankLine, says |-> Cout("Unrecognized Input")],
   [line |-> NegativeIdLine, says |-> Cout("Negative ID. Could not insert.")],
   [line |-> TwoTokenLine, says |-> Cout("Syntax error. Could not parse command.")],
   [line |-> LongNameLine, says |-> Cout("String too long. Could not insert.")],
   [line |-> KeywordLine, says |-> Quote("Unrecognized keyword in ''", KeywordLine)],
   [line |-> LowerCaseLine, says |-> Quote("Unrecognized keyword in ''", LowerCaseLine)],
   [line |-> MetaLine, says |-> Quote("Unexpected Input: ''", MetaLine)]}

MistakeLines == {e.line : e \in Mistakes}

\* every system call succeeds; the user types INSERT lines, mistakes and .exit
NextUser ==
  \/ Start(EnvsOK)
  \/ Insert(EnvsOK, MaxInsertLinesUser)
  \/ Rejected(EnvsOK, MistakeLines)
  \/ MetaExit(EnvsOK)

SpecUser == Init /\ [][NextUser]_vars

\* a step of the loop of main that reads a mistake, or an INSERT that finds
\* the leaf full
Mistaken == pc = "repl" /\ runs' = runs /\ inputLine' \in MistakeLines

Refused ==
  /\ pc = "repl" /\ runs' = runs
  /\ out' # <<>> /\ out'[Len(out')] = Cout("Error: Table full.")

\* the bytes of page 0 as the pager delivers them: from its slot, or from the
\* file when the slot is empty
LeafBytes(pgr, f) ==
  IF pgr.pages[0] # NULL THEN PageBytes(pgr.pages[0]) ELSE BSlice(f, 0, PAGE_SIZE)

\* the step prints the prompt and one line, and the loop goes on
Answers(lines) ==
  /\ pc' = "repl"
  /\ Len(out') = 2 /\ out'[1] = Cout("SQLite > ") /\ out'[2] \in lines

\* C11 as stated: after a user error or a TableFull error the REPL prints one
\* diagnostic and returns to the prompt with the leaf contents, the page
\* cache and the file unchanged; the process does not end.
C11_ErrorsChangeNothing ==
  [][(Mistaken \/ Refused) =>
       /\ pc' = "repl"
       /\ Len(out') = 2
       /\ pager' = pager
       /\ file' = file]_vars

\* C11 (recoverable errors), amended: a user error prints the prompt and its
\* one diagnostic and leaves the pager (slots, num_pages, file_size) and the
\* file exactly as they were; a TableFull error prints the prompt and
\* "Error: Table full." and leaves the file, the leaf contents, num_pages,
\* file_size and every occupied slot as they were, but when it is the first
\* access to page 0 of the session it brings the page from the file into its
\* slot; in both cases the process goes on.
C11_Recoverable ==
  /\ [][Mistaken =>
          /\ Answers({e.says : e \in {d \in Mistakes : d.line = inputLine'}})
          /\ pager' = pager
          /\ file' = file]_vars
  /\ [][Refused =>
          /\ Answers({Cout("Error: Table full.")})
          /\ file' = file
          /\ LeafBytes(pager', file') = LeafBytes(pager, file)
          /\ pager'.numPages = pager.numPages
          /\ pager'.fileSize = pager.fileSize
          /\ \A i \in 0 .. TABLE_MAX_PAGES - 1 :
               (i # 0 \/ pager.pages[0] # NULL) => pager'.pages[i] = pager.pages[i]
          /\ pager'.pages[0] # NULL]_vars

\* the second session has been refused an INSERT that was its first statement:
\* the full leaf that the first session wrote is now in slot 0
C11_Witness ==
  /\ pc = "repl" /\ runs = 2 /\ runInserts = 0
  /\ fed = LEAF_NODE_MAX_CELLS + 1
  /\ Len(out) = 2 /\ out[2] = Cout("Error: Table full.")
  /\ Leaf # NULL /\ leafNodeNumCells(Leaf) = LEAF_NODE_MAX_CELLS
  /\ PageBytes(Leaf) = BSlice(file, 0, PAGE_SIZE)

\* ------------------------------------------------------------------------
\* A session on a fresh database in which INSERT lines of many shapes are typed
\* ------------------------------------------------------------------------
\* INSERTs answered with Executed in such a session
MaxTypedInserts == 2

\* INSERT <id> u..u e..e with u times u and e times e
InsertText(id, u, e) == Join(<<W_INSERT, id, Rep(117, u), Rep(101, e)>>)

\* lengths of username and email around the bounds 32 and 255
BoundLens == {<<1, 1>>, <<32, 255>>, <<33, 255>>, <<32, 256>>, <<33, 256>>}

BoundLines == {InsertText(<<53>>, l[1], l[2]) : l \in BoundLens}

\* the ids -7, -1 and -9223372036854775808, and the lengths of the strings
\* typed with them
NegativeIds ==
  {<<45, 55>>, <<45, 49>>,
   <<45, 57, 50, 50, 51, 51, 55, 50, 48, 51, 54, 56, 53, 52, 55, 55, 53, 56, 48, 56>>}

NegativeLines ==
  {InsertText(id, 3, 3) : id \in NegativeIds}
    \cup {InsertText(<<45, 49>>, COLUMN_USERNAME_SIZE + 1, COLUMN_EMAIL_SIZE + 1)}

\* the ids 4294967296, 4294967303, 12884902146 and 9223372036854775807, each
\* with the four bytes of its value modulo 2^32, least significant first
WideIds ==
  {[id |-> <<52, 50, 57, 52, 57, 54, 55, 50, 57, 54>>, low |-> <<0, 0, 0, 0>>],
   [id |-> <<52, 50, 57, 52, 57, 54, 55, 51, 48, 51>>, low |-> <<7, 0, 0, 0>>],
   [id |-> <<49, 50, 56, 56, 52, 57, 48, 50, 49, 52, 54>>, low |-> <<2, 1, 0, 0>>],
   [id |-> <<57, 50, 50, 51, 51, 55, 50, 48, 51, 54, 56, 53, 52, 55, 55, 53, 56, 48, 55>>,
    low |-> <<255, 255, 255, 255>>]}

WideLines == {InsertText(w.id, 3, 3) : w \in WideIds}

\* INSERT, INSERT 1, INSERT 1 dan, INSERT 1x dan: fewer than three tokens
\* after the keyword
FewTokenLines ==
  {W_INSERT,
   Join(<<W_INSERT, <<49>>>>),
   TwoTokenLine,
   Join(<<W_INSERT, <<49, 120>>, <<100, 97, 110>>>>)}

\* INSERT abc bob b@x, INSERT 12abc bob b@x, INSERT 1.5 bob b@x: three tokens,
\* the first of which is not an integer
NotIntegerLines ==
  {Join(<<W_INSERT, id, <<98, 111, 98>>, <<98, 64, 120>>>>) :
     id \in {<<97, 98, 99>>, <<49, 50, 97, 98, 99>>, <<49, 46, 53>>}}

\* lines that break more than one rule of INSERT, each with the diagnostic
\* of the test that prepareCommand makes first:
\*   INSERT -1 u..u eee (33 u), INSERT -7 uuu e..e (256 e): negative id and a
\*     string too long;
\*   INSERT -1 bob, INSERT -1, INSERT -1 u..u (33 u): negative id and tokens
\*     missing;
\*   INSERT 1 u..u (33 u): a string too long and a token missing;
\*   INSERT abc u..u e..e (33 u, 256 e): no integer and strings too long;
\*   INSERT -9223372036854775809 u..u eee (33 u): an id below the least
\*     int64_t and a string too long.
ManyFaults ==
  {[line |-> InsertText(<<45, 49>>, COLUMN_USERNAME_SIZE + 1, 3),
    says |-> "Negative ID. Could not insert."],
   [line |-> InsertText(<<45, 55>>, 3, COLUMN_EMAIL_SIZE + 1),
    says |-> "Negative ID. Could not insert."],
   [line |-> Join(<<W_INSERT, <<45, 49>>, <<98, 111, 98>>>>),
    says |-> "Syntax error. Could not parse command."],
   [line |-> Join(<<W_INSERT, <<45, 49>>>>),
    says |-> "Syntax error. Could not parse command."],
   [line |-> Join(<<W_INSERT, <<45, 49>>, Rep(117, COLUMN_USERNAME_SIZE + 1)>>),
    says |-> "Syntax error. Could not parse command."],
   [line |-> Join(<<W_INSERT, <<49>>, Rep(117, COLUMN_USERNAME_SIZE + 1)>>),
    says |-> "Syntax error. Could not parse command."],
   [line |-> InsertText(<<97, 98, 99>>, COLUMN_USERNAME_SIZE + 1, COLUMN_EMAIL_SIZE + 1),
    says |-> "Syntax error. Could not parse command."],
   [line |-> InsertText(<<45, 57, 50, 50, 51, 51, 55, 50, 48, 51, 54, 56, 53, 52, 55, 55,
                          53, 56, 48, 57>>, COLUMN_USERNAME_SIZE + 1, 3),
    says |-> "Syntax error. Could not parse command."]}

ManyFaultLines == {c.line : c \in ManyFaults}

TypedLines ==
  BoundLines \cup NegativeLines \cup WideLines \cup FewTokenLines \cup NotIntegerLines
    \cup ManyFaultLines

\* an iteration of main that reads one of the given lines
Type(E, lines) ==
  /\ pc = "repl"
  /\ runInserts < MaxTypedInserts
  /\ \E line \in lines, env \in Envs(E, GetCalls, pager.pages[0] = NULL) :
       \E m \in {mainLoop(Machine, Line(line), env)} :
         /\ Becomes(m)
         /\ inserted' = IF Executed(m) THEN Append(inserted, TypedRow(line)) ELSE inserted
         /\ runInserts' = IF Executed(m) THEN runInserts + 1 ELSE runInserts
  /\ UNCHANGED <<runs, fed, ended, asked, cursor, flushed>>

NextParse ==
  \/ Start(EnvsOK)
  \/ Type(EnvsOK, TypedLines)

SpecParse == Init /\ [][NextParse]_vars

\* a step of the loop of main that reads the given line
Reads(line) == pc = "repl" /\ runs' = runs /\ inputLine' = line

\* the step prints the prompt and the given line
Says(line) == out' = <<Cout("SQLite > "), line>>

\* the step adds a cell at the end of the leaf and leaves the others alone
AddsCell ==
  /\ leafNodeNumCells(Leaf') = leafNodeNumCells(Leaf) + 1
  /\ \A i \in 0 .. leafNodeNumCells(Leaf) - 1 :
       PageRead(Leaf', leafNodeCell(i), LEAF_NODE_CELL_SIZE)
         = PageRead(Leaf, leafNodeCell(i), LEAF_NODE_CELL_SIZE)

\* the Row struct in the last cell of a leaf
LastRow(node) == destructureRow(node, leafNodeValue(leafNodeNumCells(node) - 1))

\* the bytes of a char array of n + 1 bytes that holds a string of k times c
Field(c, k, n) == BCat(BRep(c, k), BRep(0, n + 1 - k))

\* C12 (string bounds): an INSERT with a non-negative integer id is accepted
\* (answered with Executed, its username and email stored in full with their
\* terminators) when len(username) <= 32 and len(email) <= 255, the 32-byte
\* username and the 255-byte email included, and is rejected with "String too
\* long. Could not insert." exactly when len(username) > 32 or
\* len(email) > 255 (33-byte username, 256-byte email).
C12_StringBounds ==
  [][\A l \in BoundLens :
       Reads(InsertText(<<53>>, l[1], l[2])) =>
         IF l[1] <= 32 /\ l[2] <= 255
         THEN /\ Says(Cout("Executed"))
              /\ AddsCell
              /\ LastRow(Leaf').username = Field(117, l[1], 32)
              /\ LastRow(Leaf').email = Field(101, l[2], 255)
         ELSE /\ Says(Cout("String too long. Could not insert."))
              /\ pager' = pager]_vars

\* an INSERT with the longest username and the longest email accepted has
\* been executed after another: both fields of the second cell are full up
\* to their terminators
C12_Witness ==
  /\ pc = "repl" /\ inputLine = InsertText(<<53>>, 32, 255)
  /\ out = <<Cout("SQLite > "), Cout("Executed")>>
  /\ leafNodeNumCells(Leaf) = 2
  /\ LastRow(Leaf).username = Field(117, 32, 32)
  /\ LastRow(Leaf).email = Field(101, 255, 255)

\* C13 (negative id): an INSERT with three tokens whose id is a negative
\* integer (-7, -1, the least int64_t; whatever the lengths of the two
\* strings) is answered with "Negative ID. Could not insert." and leaves
\* num_cells and every cell of the leaf, indeed the whole pager, as they were.
C13_NegativeId ==
  [][\A line \in NegativeLines :
       Reads(line) =>
         /\ Says(Cout("Negative ID. Could not insert."))
         /\ pc' = "repl"
         /\ leafNodeNumCells(Leaf') = leafNodeNumCells(Leaf)
         /\ pager' = pager
         /\ file' = file]_vars

\* INSERT -1 with a 33-byte username and a 256-byte email has been refused
\* for its id on a leaf that holds one row
C13_Witness ==
  /\ pc = "repl"
  /\ inputLine = InsertText(<<45, 49>>, COLUMN_USERNAME_SIZE + 1, COLUMN_EMAIL_SIZE + 1)
  /\ out = <<Cout("SQLite > "), Cout("Negative ID. Could not insert.")>>
  /\ leafNodeNumCells(Leaf) = 1

\* C14 as stated: an INSERT with fewer than three tokens after the keyword,
\* or whose id token is not an integer, is answered with "Syntax error. Could
\* not parse command." and inserts nothing.
C14_SyntaxError ==
  [][\A line \in FewTokenLines \cup NotIntegerLines :
       Reads(line) =>
         /\ Says(Cout("Syntax error. Could not parse command."))
         /\ pager' = pager]_vars

\* C18 (id narrowing): an INSERT whose id is a non-negative integer that fits
\* in 64 signed bits but is at least 2^32 (4294967296, 4294967303,
\* 12884902146, 9223372036854775807) is accepted, and the key of the new cell
\* and the id of the row stored in it both are id mod 2^32.
C18_IdNarrowed ==
  [][\A w \in WideIds :
       Reads(InsertText(w.id, 3, 3)) =>
         /\ Says(Cout("Executed"))
         /\ AddsCell
         /\ leafNodeKey(Leaf', leafNodeNumCells(Leaf)) = BOf(w.low)
         /\ LastRow(Leaf').id = BOf(w.low)]_vars

\* INSERT 12884902146 uuu eee has been executed: the key and the row id of
\* the cell are 258
C18_Witness ==
  /\ pc = "repl"
  /\ inputLine = InsertText(<<49, 50, 56, 56, 52, 57, 48, 50, 49, 52, 54>>, 3, 3)
  /\ out = <<Cout("SQLite > "), Cout("Executed")>>
  /\ leafNodeNumCells(Leaf) = 1
  /\ U32Of(leafNodeKey(Leaf, 0)) = 258
  /\ U32Of(LastRow(Leaf).id) = 258

\* ------------------------------------------------------------------------
\* The row codec applied to page 0 of a fresh database
\* ------------------------------------------------------------------------
\* the cells whose value slots the rows are serialized into, in this order:
\* the last cell of the page, the first, the second
CodecCells == <<LEAF_NODE_MAX_CELLS - 1, 0, 1>>

\* Row structs: strings of full length with their terminators, bytes 255
\* everywhere (no terminator), zeros everywhere, a string with a NUL in its
\* middle, short strings
CodecRows ==
  {[id |-> U32Bytes(7), username |-> Field(117, 32, 32), email |-> Field(101, 255, 255)],
   [id |-> BRep(255, ID_SIZE), username |-> BRep(255, USERNAME_SIZE),
    email |-> BRep(255, EMAIL_SIZE)],
   [id |-> U32Bytes(0), username |-> BRep(0, USERNAME_SIZE), email |-> BRep(0, EMAIL_SIZE)],
   [id |-> U32Bytes(258), username |-> BCat(Field(97, 2, 2), BRep(98, USERNAME_SIZE - 3)),
    email |-> BCat(BRep(99, 1), BCat(BRep(0, EMAIL_SIZE - 2), BRep(100, 1)))],
   [id |-> U32Bytes(65536), username |-> Field(98, 3, 32), email |-> Field(120, 3, 255)]}

\* dbOpen has returned on a file that did not exist
InitCodec ==
  /\ \E env \in EnvsOK :
       \E m \in {mainStart([file |-> <<>>, pos |-> 0, pager |-> NoPager, rootPageNum |-> 0,
                            inputLine |-> <<>>, out |-> <<>>, pc |-> "repl",
                            exitStatus |-> -1, closeCalls |-> 0, failed |-> {}], 2, env)} :
         /\ file = m.file /\ pos = m.pos /\ pager = m.pager
         /\ rootPageNum = m.rootPageNum /\ inputLine = m.inputLine /\ out = m.out
         /\ pc = m.pc /\ exitStatus = m.exitStatus /\ closeCalls = m.closeCalls
         /\ failed = m.failed
  /\ inserted = <<>>
  /\ runInserts = 0
  /\ runs = 1
  /\ fed = 0
  /\ ended = "none"
  /\ asked = <<>>
  /\ cursor = NoCursor
  /\ flushed = <<>>

\* structureRow(&r, leafNodeValue(node, c)) for the next cell c of CodecCells
Structure ==
  /\ pc = "repl"
  /\ Len(inserted) < Len(CodecCells)
  /\ \E r \in CodecRows :
       /\ pager' = [pager EXCEPT !.pages[0] =
                      structureRow(r, @, leafNodeValue(CodecCells[Len(inserted) + 1]))]
       /\ inserted' = Append(inserted, r)
  /\ UNCHANGED <<file, pos, rootPageNum, inputLine, out, pc, exitStatus, closeCalls,
                 failed, runInserts, runs, fed, ended, asked, cursor, flushed>>

NextCodec == Structure

SpecCodec == InitCodec /\ [][NextCodec]_vars

\* byte offset in the page of the value slot that the k-th row goes to
CodecSlot(k) == leafNodeValue(CodecCells[k])

\* C15 (round trip): for every row r, deserializing the region that r has
\* been serialized into gives r back in all three fields (the 4 bytes of id,
\* the 33 bytes of username, the 256 bytes of email), and serializing changes
\* no byte of the page outside the 293 bytes of that region.
C15_RoundTrip ==
  [][inserted' # inserted =>
       /\ destructureRow(Leaf', CodecSlot(Len(inserted'))) = inserted'[Len(inserted')]
       /\ PageRead(Leaf', 0, CodecSlot(Len(inserted')))
            = PageRead(Leaf, 0, CodecSlot(Len(inserted')))
       /\ BDrop(PageBytes(Leaf'), CodecSlot(Len(inserted')) + ROW_SIZE)
            = BDrop(PageBytes(Leaf), CodecSlot(Len(inserted')) + ROW_SIZE)
       /\ BLen(PageBytes(Leaf')) = PAGE_SIZE
       /\ \A i \in 1 .. TABLE_MAX_PAGES - 1 : pager'.pages[i] = pager.pages[i]]_vars

\* three rows have been serialized into the last, the first and the second
\* cell: each is read back as it was, the one without terminators included,
\* and the bytes after the row of the last cell still are as malloc left them
C15_Witness ==
  /\ Len(inserted) = 3
  /\ inserted[1].username = BRep(255, USERNAME_SIZE)
  /\ inserted[2] # inserted[3]
  /\ \A k \in 1 .. 3 : destructureRow(Leaf, CodecSlot(k)) = inserted[k]
  /\ BDrop(PageBytes(Leaf), CodecSlot(1) + ROW_SIZE) = BRep(85, PAGE_SIZE - CodecSlot(1) - ROW_SIZE)

\* the keys of the cells of a leaf, in cell order
Keys(node) == [i \in 1 .. leafNodeNumCells(node) |-> U32Of(leafNodeKey(node, i - 1))]

\* the ids of the first n INSERT lines of the input, as typed
TypedIds(n) == [i \in 1 .. n |-> InsertIds[((i - 1) % Len(InsertIds)) + 1]]

\* C16 (arrival order, no uniqueness): the keys of cells 0 .. num_cells - 1
\* are the ids of the INSERTs answered with Executed, in the order they were
\* typed (7, 3, 3, 0, 12, 7, ...), whatever their values; an INSERT into a leaf
\* that is not full is accepted even when its id is smaller than or equal to
\* a key already there, and its id is the key of the last cell.
C16_ArrivalOrder ==
  /\ (pc = "repl" /\ Leaf # NULL) => Keys(Leaf) = TypedIds(Len(inserted))
  /\ (Inserting /\ fed <= LEAF_NODE_MAX_CELLS) =>
       /\ Answer = Cout("Executed")
       /\ leafNodeNumCells(Leaf) = fed
       /\ Keys(Leaf)[fed] = InsertIds[((fed - 1) % Len(InsertIds)) + 1]

\* the fourth INSERT, of id 0, has been executed after ids 7, 3 and 3
C16_Witness ==
  /\ Inserting /\ fed = 4
  /\ Answer = Cout("Executed")
  /\ Keys(Leaf) = <<7, 3, 3, 0>>

\* dbClose has flushed and closed without a failure
CloseDone == failed \cap {"lseek_flush", "write", "close"} = {}

\* the lines printed by the last iteration of main, as a set
Shown == {out[i] : i \in 1 .. Len(out)}

\* C17 (shutdown protocol): on .exit the program first closes the table, then
\* prints Goodbye!, then exits with status 0: when the close goes through, the
\* slots are empty, Goodbye! is the only line after the prompt and the status
\* is 0; when the close fails, Goodbye! has not been printed.  On EOF it first
\* prints an empty line and Goodbye!, then closes the table, then exits with
\* status 0: Goodbye! is printed whether or not the close goes through, a
\* failure of the close is reported after it, and when the close goes through
\* the slots are empty and the status is 0.
C17_Shutdown ==
  /\ ByExitCommand =>
       /\ closeCalls = 1
       /\ CloseDone => /\ out = <<Cout("SQLite > "), Cout("Goodbye!")>>
                       /\ exitStatus = EXIT_SUCCESS
                       /\ \A i \in Slots : pager.pages[i] = NULL
       /\ ~CloseDone => /\ Cout("Goodbye!") \notin Shown
                        /\ exitStatus = EXIT_FAILURE
  /\ ByEof =>
       /\ closeCalls = 1
       /\ SubSeq(out, 1, 3) = <<Cout("SQLite > "), Cout(""), Cout("Goodbye!")>>
       /\ CloseDone => /\ Len(out) = 3
                       /\ exitStatus = EXIT_SUCCESS
                       /\ \A i \in Slots : pager.pages[i] = NULL
       /\ ~CloseDone => /\ Len(out) = 4 /\ out[4] \in FatalMessages
                        /\ exitStatus = EXIT_FAILURE

\* a session that inserted a row has ended by .exit: the page is in the file,
\* Goodbye! is printed and the status is 0
C17_Witness ==
  /\ ByExitCommand /\ CloseDone
  /\ runInserts = 1
  /\ BLen(file) = PAGE_SIZE /\ leafNodeNumCells(FileLeaf) >= 1
  /\ out = <<Cout("SQLite > "), Cout("Goodbye!")>>
  /\ exitStatus = EXIT_SUCCESS

\* ------------------------------------------------------------------------
\* The pager on its own: pagerOpen on files of several lengths, then getPage
\* ------------------------------------------------------------------------
\* calls of getPage made after the open
MaxGetPages == 2

\* files of 0 bytes, 100 bytes, one page, one page and 100 bytes, two pages,
\* three pages and one byte
PagerFiles ==
  {<<>>, BRep(7, 100), BRep(7, PAGE_SIZE), PartialFile,
   BCat(BRep(7, PAGE_SIZE), BRep(9, PAGE_SIZE)), BRep(7, 3 * PAGE_SIZE + 1)}

\* the page numbers asked for
PageNums ==
  {0, 1, 2, TABLE_MAX_PAGES - 1, TABLE_MAX_PAGES, TABLE_MAX_PAGES + 1, 2 * TABLE_MAX_PAGES}

InitPager == \E f \in PagerFiles : InitWith(f)

\* pagerOpen(fileName)
Open(E) ==
  /\ pc = "off"
  /\ \E env \in Envs(E, {"open", "lseek_end"}, FALSE) : Becomes(pagerOpen(NewProcess, env))
  /\ runs' = runs + 1
  /\ UNCHANGED <<inserted, runInserts, fed, ended, asked, cursor, flushed>>

\* getPage(pager, p)
GetPage(E) ==
  /\ pc = "repl"
  /\ closeCalls = 0
  /\ Len(asked) < MaxGetPages
  /\ \E p \in PageNums, env \in {e \in Envs(E, {"lseek_get", "read"}, TRUE) : e.past = WILD} :
       /\ Becomes(getPage(Machine, p, env))
       /\ asked' = Append(asked, p)
  /\ UNCHANGED <<inserted, runInserts, runs, fed, ended, cursor, flushed>>

NextPager ==
  \/ Open(EnvsUB)
  \/ GetPage(EnvsUB)

SpecPager == InitPager /\ [][NextPager]_vars

\* pagerOpen has been called, and getPage not yet
Opened == runs = 1 /\ asked = <<>>

\* C19 (pager open): if the length of the file is not a multiple of PAGE_SIZE
\* the process ends with failure status and no page is cached; otherwise
\* pagerOpen returns with all 100 slots empty and
\* num_pages = file length / PAGE_SIZE; the file is as it was.
C19_PagerOpen ==
  Opened =>
    /\ \A i \in Slots : pager.pages[i] = NULL
    /\ IF BLen(file) % 4096 # 0
       THEN /\ pc = "exited" /\ exitStatus = EXIT_FAILURE
            /\ Answer = Cerr("DB file doesn't have whole number of Pages. Corrupted file.")
       ELSE /\ pc = "repl"
            /\ pager.numPages = BLen(file) \div 4096
            /\ pager.fileSize = ToU32(BLen(file))
    /\ file \in PagerFiles

\* pagerOpen has returned on a file of two pages
C19_Witness ==
  /\ Opened /\ pc = "repl"
  /\ BLen(file) = 2 * PAGE_SIZE
  /\ pager.numPages = 2
  /\ \A i \in Slots : pager.pages[i] = NULL

\* a buffer of PAGE_SIZE bytes
IsPage(x) == Len(x) = NumPieces /\ BLen(PageBytes(x)) = PAGE_SIZE

\* C20 as stated: getPage(page_num) ends the process with failure status
\* exactly when page_num > TABLE_MAX_PAGES (100), leaving the cache and
\* num_pages as they were; for every page_num <= TABLE_MAX_PAGES it returns a
\* page buffer.
C20_GetPageBounds ==
  [][asked' # asked =>
       IF asked'[Len(asked')] > 100
       THEN /\ pc' = "exited" /\ exitStatus' = EXIT_FAILURE
            /\ pager' = pager
       ELSE /\ pc' = "repl"
            /\ IsPage(Slot(pager', asked'[Len(asked')]))]_vars

\* the page number of the call of getPage made in the step
AskedNow == asked'[Len(asked')]

\* the step is a call of getPage that finds the slot of its page empty and
\* returns
Missed == asked' # asked /\ pc' = "repl" /\ Slot(pager, AskedNow) = NULL

\* what a read of up to n bytes at offset off of the file f leaves in a
\* buffer of n zeros
ReadIntoZeros(f, off, n) == BCat(BSlice(f, off, n), BRep(0, n - BLen(BSlice(f, off, n))))

\* C21 as stated: on a cache miss getPage installs a buffer that is zero in
\* every byte that the read has not overwritten; for a page at or beyond the
\* end of the file (page 0 of an empty file) the buffer is all zeros.
C21_MissZeroed ==
  [][Missed =>
       PageBytes(Slot(pager', AskedNow))
         = ReadIntoZeros(file, PageOffset(AskedNow), PAGE_SIZE)]_vars

\* C22 as stated: after initializeLeafNode on page 0 of a fresh file the page
\* has node type byte 1, num_cells 0, and is_root and parent_page equal to
\* zero; hence a fresh database closed normally has bytes [1..6) of the file
\* equal to zero.
C22_FreshLeafHeader ==
  /\ (runs = 1 /\ pc = "repl" /\ out = <<>>) =>
       /\ Leaf # NULL
       /\ PageRead(Leaf, NODE_TYPE_OFFSET, NODE_TYPE_SIZE) = BRep(NODE_LEAF, 1)
       /\ leafNodeNumCells(Leaf) = 0
       /\ PageRead(Leaf, IS_ROOT_OFFSET, IS_ROOT_SIZE) = BRep(0, 1)
       /\ PageRead(Leaf, PARENT_POINTER_OFFSET, PARENT_POINTER_SIZE) = BRep(0, 4)
  /\ (Closed /\ runs = 1) => BSlice(file, 1, 5) = BRep(0, 5)

\* the indices of the slots that hold a page buffer
Materialized(pgr) == {i \in 0 .. TABLE_MAX_PAGES : IsPage(Slot(pgr, i))}

\* 1 + the greatest element of a set of naturals, 0 for the empty set
Above(S) == IF S = {} THEN 0 ELSE 1 + (CHOOSE x \in S : \A y \in S : y <= x)

Greater(a, b) == IF a >= b THEN a ELSE b

MaxFlushes == 1

\* any system call may fail; the memory past pages[] is any of the three
EnvsAny == [ok : [Sites -> BOOLEAN], heap : Heap, past : {NULL, WILD, GUARD}]

\* files of 0, 1, 2, 100 and 101 pages
CacheFiles ==
  {<<>>, BRep(7, PAGE_SIZE), BCat(BRep(7, PAGE_SIZE), BRep(9, PAGE_SIZE)),
   BRep(3, TABLE_MAX_PAGES * PAGE_SIZE), BRep(3, (TABLE_MAX_PAGES + 1) * PAGE_SIZE)}

\* the page numbers flushed
FlushNums == {0, 1, TABLE_MAX_PAGES - 1}

InitCache == \E f \in CacheFiles : InitWith(f)

\* pagerFlush(pager, p)
Flush(E) ==
  /\ pc = "repl"
  /\ closeCalls = 0
  /\ Len(flushed) < MaxFlushes
  /\ \E p \in FlushNums, env \in {e \in Envs(E, {"lseek_flush", "write"}, FALSE) : e.past = WILD} :
       /\ Becomes(pagerFlush(Machine, p, env))
       /\ flushed' = Append(flushed, p)
  /\ UNCHANGED <<inserted, runInserts, runs, fed, ended, asked, cursor>>

\* dbClose(table)
Close(E) ==
  /\ pc = "repl"
  /\ closeCalls = 0
  /\ \E env \in {e \in Envs(E, {"lseek_flush", "write", "close"}, TRUE) : e.past = WILD} :
       Becomes(dbClose(Machine, env))
  /\ UNCHANGED <<inserted, runInserts, runs, fed, ended, asked, cursor, flushed>>

NextCache ==
  \/ Open(EnvsAny)
  \/ GetPage(EnvsAny)
  \/ Flush(EnvsAny)
  \/ Close(EnvsAny)

SpecCache == InitCache /\ [][NextCache]_vars

\* the step is a call of getPage for a page whose slot is occupied
Hit == asked' # asked /\ AskedNow < TABLE_MAX_PAGES /\ pager.pages[AskedNow] # NULL

\* C24 (no eviction): as long as dbClose is not called, a slot that is
\* occupied stays occupied by the same buffer, whatever is called (getPage
\* for this or another page, pagerFlush) and whether or not it fails; a call
\* of getPage for a page whose slot is occupied returns with the slots,
\* num_pages, the file and its offset untouched and no system call made
\* (none can have failed, and nothing is printed).
C24_NoEviction ==
  /\ [][(runs' = runs /\ closeCalls' = closeCalls) =>
          \A i \in Slots : pager.pages[i] # NULL => pager'.pages[i] = pager.pages[i]]_vars
  /\ [][Hit =>
          /\ pc' = "repl"
          /\ pager' = pager
          /\ file' = file /\ pos' = pos
          /\ failed' = failed /\ out' = out]_vars

\* getPage(1) has been called twice on a file of two pages: the second call
\* found the page in its slot, and the offset of the descriptor still is
\* where the read of the first call left it
C24_Witness ==
  /\ pc = "repl" /\ asked = <<1, 1>> /\ flushed = <<>>
  /\ BLen(file) = 2 * PAGE_SIZE
  /\ pager.pages[1] = PageOf(BRep(9, PAGE_SIZE))
  /\ pager.pages[0] = NULL
  /\ pager.numPages = 2
  /\ pos = 2 * PAGE_SIZE

\* the page number of the call of pagerFlush made in the step
FlushedNow == flushed'[Len(flushed')]

\* the file f with zeros appended up to length n, if it is shorter
ZeroExtended(f, n) == IF BLen(f) < n THEN BCat(f, BRep(0, n - BLen(f))) ELSE f

\* C25 (flush): pagerFlush(page_num) ends the process with failure status,
\* the file untouched, if the slot is empty; otherwise, when it returns, the
\* PAGE_SIZE bytes of the file at offset page_num * PAGE_SIZE are those of the
\* slot's buffer, every byte that the file had outside them is as it was (a
\* file that ended before the offset has zeros in between), and the file is
\* no longer than before unless the page lies past its end; the slot keeps
\* its buffer.
C25_Flush ==
  [][flushed' # flushed =>
       IF pager.pages[FlushedNow] = NULL
       THEN /\ pc' = "exited" /\ exitStatus' = EXIT_FAILURE
            /\ out'[Len(out')] = Cerr("Tried to flush unallocated page")
            /\ file' = file
       ELSE pc' = "repl" =>
              /\ BSlice(file', PageOffset(FlushedNow), PAGE_SIZE)
                   = PageBytes(pager.pages[FlushedNow])
              /\ BTake(file', PageOffset(FlushedNow))
                   = BTake(ZeroExtended(file, PageOffset(FlushedNow)), PageOffset(FlushedNow))
              /\ BDrop(file', PageOffset(FlushedNow) + PAGE_SIZE)
                   = BDrop(file, PageOffset(FlushedNow) + PAGE_SIZE)
              /\ BLen(file') = Greater(BLen(file), PageOffset(FlushedNow) + PAGE_SIZE)
              /\ pager' = pager]_vars

\* on a file of two pages, page 0 (read from the file) and page 99 (past its
\* end) have been cached and page 99 has been flushed: the file is 100 pages
\* long, its first two pages are as they were and pages 2 to 98 are zeros
C25_Witness ==
  /\ pc = "repl" /\ flushed = <<TABLE_MAX_PAGES - 1>> /\ closeCalls = 0
  /\ pager.pages[0] # NULL /\ pager.pages[TABLE_MAX_PAGES - 1] # NULL
  /\ BLen(file) = TABLE_MAX_PAGES * PAGE_SIZE
  /\ BTake(file, 2 * PAGE_SIZE) = BCat(BRep(7, PAGE_SIZE), BRep(9, PAGE_SIZE))
  /\ BSlice(file, 2 * PAGE_SIZE, (TABLE_MAX_PAGES - 3) * PAGE_SIZE)
       = BRep(0, (TABLE_MAX_PAGES - 3) * PAGE_SIZE)
  /\ BDrop(file, (TABLE_MAX_PAGES - 1) * PAGE_SIZE) = PageBytes(pager.pages[TABLE_MAX_PAGES - 1])

\* C30 as stated: for a database file whose length is a multiple of 4096,
\* however large, num_pages <= TABLE_MAX_PAGES in every reachable state, so
\* that dbClose examines the slot indices 0 .. 99 only.
C30_SlotBound == runs = 1 => pager.numPages <= TABLE_MAX_PAGES

\* the step starts the program, and dbOpen returns
Opens == runs' # runs /\ pc' = "repl"

\* C26 (table open): when the file is empty at the start, dbOpen brings page
\* 0 into its slot and initializes it as an empty leaf (byte 0 = 1,
\* num_cells = 0), and num_pages becomes 1; when the file is not empty, dbOpen
\* leaves every slot empty and num_pages at the number of pages of the file,
\* so that the first page delivered later is the page of the file, unchanged;
\* root_page_num is 0 in both cases, and the file is not written.
C26_TableOpen ==
  [][Opens =>
       /\ rootPageNum' = 0
       /\ file' = file
       /\ IF BLen(file) = 0
          THEN /\ Leaf' # NULL
               /\ PageRead(Leaf', NODE_TYPE_OFFSET, NODE_TYPE_SIZE) = BRep(NODE_LEAF, 1)
               /\ leafNodeNumCells(Leaf') = 0
               /\ pager'.numPages = 1
               /\ \A i \in Slots \ {0} : pager'.pages[i] = NULL
          ELSE /\ \A i \in Slots : pager'.pages[i] = NULL
               /\ pager'.numPages = BLen(file) \div PAGE_SIZE
               /\ LeafBytes(pager', file') = BSlice(file, 0, PAGE_SIZE)]_vars

\* the program has been started on the file that a session with two INSERTs
\* wrote: no slot is occupied and num_pages is 1
C26_Witness ==
  /\ pc = "repl" /\ out = <<>> /\ runs = 2
  /\ BLen(file) = PAGE_SIZE /\ leafNodeNumCells(FileLeaf) = 2
  /\ \A i \in Slots : pager.pages[i] = NULL
  /\ pager.numPages = 1
  /\ rootPageNum = 0

\* ------------------------------------------------------------------------
\* leafNodeInsert at any cell of the root leaf of a fresh database
\* ------------------------------------------------------------------------
\* the cells at which a leaf of n cells is inserted into: any cell while it
\* has fewer than three, then the first and the one after the last, and the
\* middle one too when one cell is left; the one after the last when the leaf
\* is full
LeafPositions(n) ==
  IF n < 3 THEN 0 .. n
  ELSE IF n = LEAF_NODE_MAX_CELLS - 1 THEN {0, n \div 2, n}
  ELSE IF n >= LEAF_NODE_MAX_CELLS THEN {n}
  ELSE {0, n}

\* the key and the row inserted into a leaf of n cells
LeafKey(n) == U32Bytes(100 + n)

LeafRow(n) ==
  [id |-> U32Bytes(n), username |-> Field(117, n + 1, COLUMN_USERNAME_SIZE),
   email |-> Field(101, 3, COLUMN_EMAIL_SIZE)]

\* leafNodeInsert(cursor, key, &row) with a cursor on cell p of the root leaf
LeafInsert ==
  /\ pc = "repl"
  /\ \E p \in LeafPositions(leafNodeNumCells(pager.pages[0])),
        env \in Envs(EnvsOK, {}, FALSE) :
       \E at \in {[pageNum |-> rootPageNum, cellNum |-> p,
                   endOfTable |-> p = leafNodeNumCells(pager.pages[0])]} :
         /\ Becomes(leafNodeInsert(Machine, at, LeafKey(leafNodeNumCells(pager.pages[0])),
                                   LeafRow(leafNodeNumCells(pager.pages[0])), env))
         /\ cursor' = [made |-> "caller", c |-> at]
  /\ UNCHANGED <<inserted, runInserts, runs, fed, ended, asked, flushed>>

NextLeaf == LeafInsert

SpecLeaf == InitCodec /\ [][NextLeaf]_vars

\* the LEAF_NODE_CELL_SIZE bytes of cell i of a leaf
CellOf(node, i) == PageRead(node, leafNodeCell(i), LEAF_NODE_CELL_SIZE)

\* new is old, a leaf of n cells, with (key, row) inserted at cell p
InsertedAt(old, new, n, p, key, row) ==
  /\ leafNodeNumCells(new) = n + 1
  /\ \A i \in 0 .. p - 1 : CellOf(new, i) = CellOf(old, i)
  /\ leafNodeKey(new, p) = key
  /\ destructureRow(new, leafNodeValue(p)) = row
  /\ \A i \in p + 1 .. n : CellOf(new, i) = CellOf(old, i - 1)
  /\ PageRead(new, 0, LEAF_NODE_NUM_CELLS_OFFSET) = PageRead(old, 0, LEAF_NODE_NUM_CELLS_OFFSET)
  /\ BDrop(PageBytes(new), leafNodeCell(n + 1)) = BDrop(PageBytes(old), leafNodeCell(n + 1))
  /\ BLen(PageBytes(new)) = PAGE_SIZE

\* C27 (leaf insert): leafNodeInsert at cursor position p on a leaf with
\* n < 13 cells yields a leaf with n + 1 cells in which cells [0, p) are
\* unchanged, cell p holds the key and the serialized row, and cells (p, n]
\* are the former cells [p, n) in the same order; the bytes of the page before
\* num_cells and after cell n are not written, nor is any other slot, the
\* file, or num_pages; the process goes on.
C27_LeafInsert ==
  [][(cursor' # cursor /\ leafNodeNumCells(Leaf) < LEAF_NODE_MAX_CELLS) =>
       /\ pc' = "repl"
       /\ InsertedAt(Leaf, Leaf', leafNodeNumCells(Leaf), cursor'.c.cellNum,
                     LeafKey(leafNodeNumCells(Leaf)), LeafRow(leafNodeNumCells(Leaf)))
       /\ \A i \in Slots \ {0} : pager'.pages[i] = pager.pages[i]
       /\ pager'.numPages = pager.numPages
       /\ file' = file]_vars

\* the thirteenth cell has been inserted at cell 6 of a leaf of twelve, the
\* twelfth before at cell 0: the keys 112 and 111 are in cells 6 and 0, and
\* the key 110, inserted at the end of a leaf of ten, has moved to cell 12
C27_Witness ==
  /\ pc = "repl" /\ cursor.made = "caller" /\ cursor.c.cellNum = 6
  /\ leafNodeNumCells(Leaf) = LEAF_NODE_MAX_CELLS
  /\ Keys(Leaf)[7] = 112 /\ Keys(Leaf)[1] = 111 /\ Keys(Leaf)[13] = 110
  /\ destructureRow(Leaf, leafNodeValue(12)) = LeafRow(10)

\* ------------------------------------------------------------------------
\* Cursors on the root leaf of a fresh database as rows are appended to it
\* ------------------------------------------------------------------------
\* cell number up to which a cursor is advanced: one past the cell after
\* the last one of a full leaf
MaxCellNum == 14

\* the row appended to a leaf of n cells
AppendedRow(n) == prepareCommand(InsertLine(n + 1)).toBeInserted

\* leafNodeInsert at the end of the root leaf, as executeInsertCommand calls it
LeafAppend ==
  /\ pc = "repl"
  /\ leafNodeNumCells(pager.pages[0]) < LEAF_NODE_MAX_CELLS
  /\ \E env \in Envs(EnvsOK, {}, FALSE) :
       \E e \in {tableEnd(Machine, env)} :
         Becomes(leafNodeInsert(e.m, e.cursor,
                                AppendedRow(leafNodeNumCells(pager.pages[0])).id,
                                AppendedRow(leafNodeNumCells(pager.pages[0])), env))
  /\ UNCHANGED <<inserted, runInserts, runs, fed, ended, asked, cursor, flushed>>

\* cursor = tableStart(table)
TableStart ==
  /\ pc = "repl"
  /\ \E env \in Envs(EnvsOK, {}, FALSE) :
       \E s \in {tableStart(Machine, env)} :
         /\ Becomes(s.m)
         /\ cursor' = [made |-> "tableStart", c |-> s.cursor]
  /\ UNCHANGED <<inserted, runInserts, runs, fed, ended, asked, flushed>>

\* cursor = tableEnd(table)
TableEnd ==
  /\ pc = "repl"
  /\ \E env \in Envs(EnvsOK, {}, FALSE) :
       \E e \in {tableEnd(Machine, env)} :
         /\ Becomes(e.m)
         /\ cursor' = [made |-> "tableEnd", c |-> e.cursor]
  /\ UNCHANGED <<inserted, runInserts, runs, fed, ended, asked, flushed>>

\* cursorAdvance(cursor)
Advance ==
  /\ pc = "repl"
  /\ cursor.made # "none"
  /\ cursor.c.cellNum < MaxCellNum
  /\ \E env \in Envs(EnvsOK, {}, FALSE) :
       \E a \in {cursorAdvance(Machine, cursor.c, env)} :
         /\ Becomes(a.m)
         /\ cursor' = [made |-> "cursorAdvance", c |-> a.cursor]
  /\ UNCHANGED <<inserted, runInserts, runs, fed, ended, asked, flushed>>

NextCursor ==
  \/ LeafAppend
  \/ TableStart
  \/ TableEnd
  \/ Advance

SpecCursor == InitCodec /\ [][NextCursor]_vars

SelectOutput(node) ==
  <<Cout("SQLite > ")>>
    \o [i \in 1 .. leafNodeNumCells(node) |-> printRow(RowsIn(node)[i])]
    \o <<Cout("Executed")>>

\* the root leaf as the pager delivers it: from its slot, or from the file
\* when the slot is empty
LeafNow == IF Leaf # NULL THEN Leaf ELSE FileLeaf

\* C29 (SELECT): on a leaf with n cells SELECT prints exactly n rows, those
\* of cells 0, 1, ..., n - 1 in that order, and then Executed, and the loop of
\* main goes on; the bytes of the leaf and the file are as before; on a fresh
\* database it prints no row and then Executed.
C29_Select ==
  [][Reads(W_SELECT) =>
       /\ pc' = "repl"
       /\ out' = SelectOutput(LeafNow)
       /\ Len(out') = leafNodeNumCells(LeafNow) + 2
       /\ (runs = 1 /\ fed = 0) => out' = <<Cout("SQLite > "), Cout("Executed")>>
       /\ LeafBytes(pager', file') = LeafBytes(pager, file)
       /\ file' = file]_vars

\* SELECT has printed the 13 rows of a full leaf, the first with the username
\* of 32 bytes, and Executed
C29_Witness ==
  /\ Selected /\ Len(out) = LEAF_NODE_MAX_CELLS + 2
  /\ leafNodeNumCells(Leaf) = LEAF_NODE_MAX_CELLS
  /\ out[2] = Printed(TypedRow(InsertLine(1)))
  /\ out[LEAF_NODE_MAX_CELLS + 1] = Printed(TypedRow(InsertLine(LEAF_NODE_MAX_CELLS)))
  /\ Answer = Cout("Executed")

\* ------------------------------------------------------------------------
\* Bounds of the accesses: slots of the pager, bytes of the page
\* ------------------------------------------------------------------------
\* the step is a call of getPage that returns
Returned == asked' # asked /\ pc' = "repl"

\* C31 as stated: a call of getPage that does not abort reads and writes
\* only the slots 0..99 of the page array, for every page_num asked for,
\* page_num = TABLE_MAX_PAGES (100) included: the slot it tests and returns,
\* pages[page_num], is one of the 100, and what follows the array in memory
\* is left as it was.
C31_GetPageSlots ==
  [][Returned => AskedNow \in Slots /\ pager'.past = pager.past]_vars

\* ------------------------------------------------------------------------
\* Sessions on database files that exist before the first run
\* ------------------------------------------------------------------------
\* INSERT lines fed to the program on such a file
MaxInsertLinesExisting == 2

\* the row stored in cell k of such a file
StoredRow(k) ==
  [id |-> U32Bytes(100 + k), username |-> Field(98, 3, COLUMN_USERNAME_SIZE),
   email |-> Field(120, 3 + k, COLUMN_EMAIL_SIZE)]

\* a page of bytes t into which a leaf of n rows has been written
RECURSIVE FilledLeaf(_, _)
FilledLeaf(n, t) ==
  IF n = 0 THEN initializeLeafNode(PageOf(BRep(t, PAGE_SIZE)))
  ELSE structureRow(StoredRow(n - 1),
                    memcpy(memcpy(FilledLeaf(n - 1, t), LEAF_NODE_NUM_CELLS_OFFSET, U32Bytes(n)),
                           leafNodeCell(n - 1), StoredRow(n - 1).id),
                    leafNodeValue(n - 1))

\* the bytes of that page when its num_cells field says stored
StoredLeaf(n, stored, t) ==
  PageBytes(memcpy(FilledLeaf(n, t), LEAF_NODE_NUM_CELLS_OFFSET, U32Bytes(stored)))

\* no file; one-page files whose leaf holds 2, 12 and 13 rows; a page of 13
\* rows whose num_cells field says 14; a page of the byte 0x55 (num_cells
\* 0x55555555); a leaf of one row followed by one and by a hundred pages
ExistingFiles ==
  {<<>>, StoredLeaf(2, 2, 0), StoredLeaf(12, 12, 0), StoredLeaf(13, 13, 7),
   StoredLeaf(13, 14, 7), BRep(85, PAGE_SIZE),
   BCat(StoredLeaf(1, 1, 0), BRep(9, PAGE_SIZE)),
   BCat(StoredLeaf(1, 1, 0), BRep(9, TABLE_MAX_PAGES * PAGE_SIZE))}

InitExisting == \E f \in ExistingFiles : InitWith(f)

\* every system call succeeds; the memory past a heap block is any of the
\* three where it is looked at: past the Pager when pagerOpen allocates it,
\* past the page buffer in SELECT and .btree
NextExisting ==
  \/ Start(EnvsUB)
  \/ Insert(EnvsOK, MaxInsertLinesExisting)
  \/ Select(EnvsUB)
  \/ MetaBtree(EnvsUB)
  \/ MetaExit(EnvsOK)
  \/ Rejected(EnvsOK, {BlankLine, NegativeIdLine})
  \/ Eof(EnvsOK)

SpecExisting == InitExisting /\ [][NextExisting]_vars

\* the lines of .btree that show the key of a cell
KeysOf(lines) == SelectSeq(lines, LAMBDA l : l.text = "    - i : key")

\* C32 as stated: on a database file of page-aligned length, whatever its
\* contents (a stored num_cells greater than 13 included), SELECT and .btree
\* read only cells with an index below LEAF_NODE_MAX_CELLS and never a byte
\* past the 4096-byte page buffer: neither prints more than 13 cells (each
\* row and each key printed is a cell read), and neither is killed by an
\* access outside the buffer.
C32_ReadsInPage ==
  [][(Reads(W_SELECT) \/ Reads(M_BTREE)) =>
       /\ exitStatus' # KILLED
       /\ Len(RowsOf(out')) <= LEAF_NODE_MAX_CELLS
       /\ Len(KeysOf(out')) <= LEAF_NODE_MAX_CELLS]_vars

\* a step of the loop of main that reads the next INSERT line of the input
ReadsInsert == pc = "repl" /\ runs' = runs /\ fed' = fed + 1

\* the lines that the step prints
Prints(line) == \E i \in 1 .. Len(out') : out'[i] = line

\* C33 (no split abort through the REPL): no iteration of main prints
\* `Need to implement splitting a leaf node.`; an INSERT typed when the root
\* leaf holds LEAF_NODE_MAX_CELLS cells or more (as the pager delivers it,
\* whatever the file held) is answered with `Error: Table full.` by
\* executeInsertCommand, the process goes on and the leaf is as it was, so
\* leafNodeInsert is never called on a full leaf.
C33_NoSplitAbort ==
  [][(pc = "repl" /\ runs' = runs) =>
       /\ ~Prints(Cout("Need to implement splitting a leaf node."))
       /\ (ReadsInsert /\ leafNodeNumCells(LeafNow) >= LEAF_NODE_MAX_CELLS)
            => /\ Says(Cout("Error: Table full."))
               /\ pc' = "repl"
               /\ PageBytes(Leaf') = PageBytes(LeafNow)
               /\ file' = file]_vars

\* a session has opened a file of 12 rows; its first INSERT has filled the
\* leaf and its second has been answered with `Error: Table full.`
C33_Witness ==
  /\ pc = "repl" /\ runs = 1 /\ fed = 2 /\ runInserts = 1
  /\ inputLine = InsertLine(2)
  /\ out = <<Cout("SQLite > "), Cout("Error: Table full.")>>
  /\ leafNodeNumCells(Leaf) = LEAF_NODE_MAX_CELLS

\* the step ends the process after a dbClose that has returned, no system
\* call of the session having failed
NormalEnd ==
  /\ pc' = "exited" /\ closeCalls' = 1 /\ failed' = {}
  /\ exitStatus' \in {EXIT_SUCCESS, EXIT_FAILURE}

\* a step of a session on a database that is not empty, in which no INSERT
\* has been answered with Executed
ReadOnlyStep == pc = "repl" /\ runs' = runs /\ runInserts' = 0 /\ BLen(file) > 0

\* C34 (read-only sessions): in a session on an existing non-empty database
\* in which no INSERT succeeds (SELECT, meta commands, rejected lines and
\* INSERTs refused for want of room only), no iteration of main changes a
\* byte or the length of the file, and neither does the normal close that
\* ends the session: the file is afterwards what it was when it was opened.
C34_ReadOnlySession ==
  [][(ReadOnlyStep /\ (pc' = "exited" => NormalEnd)) => file' = file]_vars

\* a session on the file of two pages has loaded page 0, inserted nothing
\* and ended with .exit, which has written page 0 back; the file is the same
C34_Witness ==
  /\ pc = "exited" /\ exitStatus = EXIT_SUCCESS /\ closeCalls = 1 /\ failed = {}
  /\ inputLine = M_EXIT
  /\ runs = 1 /\ runInserts = 0
  /\ pos = PAGE_SIZE
  /\ file = BCat(StoredLeaf(1, 1, 0), BRep(9, PAGE_SIZE))

\* in every cell of the leaf the key is the id field of the row
KeyIsId(node) ==
  \A i \in 0 .. leafNodeNumCells(node) - 1 :
    leafNodeKey(node, i) = PageRead(node, leafNodeValue(i) + ID_OFFSET, ID_SIZE)

\* C35 (key equals row id): in every state reached from a fresh database,
\* for every cell i < num_cells of the root leaf, as cached and as stored in
\* the file, the 4-byte key of the cell equals the id field of the row
\* serialized in the same cell.
C35_KeyIsRowId ==
  /\ Leaf # NULL => KeyIsId(Leaf)
  /\ BLen(file) > 0 => KeyIsId(FileLeaf)

\* the leaf is full: the ids typed were 7, 3, 3, 0, 12, 7, ..., and cells 0,
\* 3 and 4 hold 7, 0 and 12 as key and as id
C35_Witness ==
  /\ pc = "repl" /\ Leaf # NULL
  /\ leafNodeNumCells(Leaf) = LEAF_NODE_MAX_CELLS
  /\ leafNodeKey(Leaf, 0) = U32Bytes(7)
  /\ leafNodeKey(Leaf, 3) = U32Bytes(0)
  /\ leafNodeKey(Leaf, 4) = U32Bytes(12)
  /\ destructureRow(Leaf, leafNodeValue(4)).id = U32Bytes(12)

\* C36 (error precedence of INSERT): a line that breaks several rules is
\* answered by the first of SyntaxError, NegativeId, StringTooLong that
\* applies: a negative id with a 33-byte username or a 256-byte email is
\* answered with `Negative ID. Could not insert.`; a negative id, or a
\* 33-byte username, with a token missing is answered with `Syntax error.
\* Could not parse command.`, and so is an id that is no int64_t with
\* strings too long.  Nothing is inserted and the loop goes on.
C36_ErrorPrecedence ==
  [][\A c \in ManyFaults :
       Reads(c.line) =>
         /\ Says(Cout(c.says))
         /\ pc' = "repl"
         /\ pager' = pager
         /\ file' = file]_vars

\* INSERT -1 with a 33-byte username and a 3-byte email has been answered
\* with the diagnostic of the negative id, on a leaf that holds one row
C36_Witness ==
  /\ pc = "repl"
  /\ inputLine = InsertText(<<45, 49>>, COLUMN_USERNAME_SIZE + 1, 3)
  /\ out = <<Cout("SQLite > "), Cout("Negative ID. Could not insert.")>>
  /\ leafNodeNumCells(Leaf) = 1

====
